---------------------------- MODULE Spec2Model ----------------------------
(***************************************************************************)
(* A model of the MOUSE bottom-up cost estimator (src/cost): the account   *)
(* tree rollup, cost scaling, the FOAK -> NOAK learning adjustment, the    *)
(* indirect / annualized accounts, and the capital aggregation, as the     *)
(* Python code computes them.                                              *)
(*                                                                         *)
(* Numbers.  A float is modelled as a pair <<n, d>>: the rational n/d in   *)
(* lowest terms when d > 0, and the IEEE special values when d = 0         *)
(* (<<0,0>> is nan, <<1,0>> is +inf, <<-1,0>> is -inf).  Rounding is not   *)
(* modelled: every input of the model is chosen so that the code's         *)
(* arithmetic on it is exact in the rationals.                             *)
(***************************************************************************)
EXTENDS Integers, Sequences, FiniteSets, TLC

VARIABLES
    params,      \* the design-parameter dict (a function on the keys present)
    catalog,     \* the cost database file: its sheets as read
    df,          \* the in-flight cost table of the current call or sample
    before,      \* the table as it was handed to the last operation
    option,      \* the account group of the last rollup
    pc,          \* position in the procedure the specification runs
    sample,      \* index i of the sampling loop
    COA_list,    \* the per-sample tables collected so far
    escalated_cost, \* the escalated (and then cleaned) catalog table
    arg,         \* arguments of a function under test
    ret          \* its result

vars == <<params, catalog, df, before, option, pc, sample, COA_list, escalated_cost, arg, ret>>

(***************************************************************************)
(* Float arithmetic (numpy float64 semantics for nan / inf).               *)
(***************************************************************************)
NaN == <<0, 0>>
Inf == <<1, 0>>
NegInf == <<-1, 0>>
Zero == <<0, 1>>
One == <<1, 1>>

Abs(n) == IF n < 0 THEN -n ELSE n
Sign(n) == IF n < 0 THEN -1 ELSE IF n > 0 THEN 1 ELSE 0

RECURSIVE GCD(_, _)
GCD(a, b) == IF b = 0 THEN a ELSE GCD(b, a % b)

Norm(n, d) ==
    IF d = 0 THEN <<Sign(n), 0>>
    ELSE LET g == GCD(Abs(n), Abs(d))
             s == IF d < 0 THEN -1 ELSE 1
         IN  <<(s * n) \div g, (s * d) \div g>>

Flt(n) == <<n, 1>>
Frac(n, d) == Norm(n, d)

IsNaN(x) == x = NaN
NotNa(x) == x # NaN
IsFinite(x) == x[2] # 0

FAdd(x, y) ==
    IF IsNaN(x) \/ IsNaN(y) THEN NaN
    ELSE IF IsFinite(x) /\ IsFinite(y)
         THEN LET g == GCD(x[2], y[2])
              IN  Norm(x[1] * (y[2] \div g) + y[1] * (x[2] \div g), (x[2] \div g) * y[2])
    ELSE IF IsFinite(x) THEN y
    ELSE IF IsFinite(y) THEN x
    ELSE IF x = y THEN x ELSE NaN

FNeg(x) == <<-x[1], x[2]>>
FSub(x, y) == FAdd(x, FNeg(y))

\* The factors are cancelled crosswise first, which keeps the products small.
FMul(x, y) ==
    IF IsNaN(x) \/ IsNaN(y) THEN NaN
    ELSE IF ~IsFinite(x) \/ ~IsFinite(y) THEN Norm(Sign(x[1]) * Sign(y[1]), x[2] * y[2])
    ELSE LET g1 == GCD(Abs(x[1]), y[2])
             g2 == GCD(Abs(y[1]), x[2])
         IN  Norm((x[1] \div g1) * (y[1] \div g2), (x[2] \div g2) * (y[2] \div g1))

\* 1/y: 1/0 is +inf (the sign of a zero is not modelled), 1/inf is 0.
FRecip(y) ==
    IF IsNaN(y) THEN NaN
    ELSE IF y[1] = 0 THEN Inf
    ELSE Norm(Sign(y[1]) * y[2], Abs(y[1]))

\* numpy division: x/0 is +-inf, 0/0 is nan; no exception.
FDiv(x, y) ==
    IF IsNaN(x) \/ IsNaN(y) THEN NaN
    ELSE IF y[2] = 0 THEN (IF IsFinite(x) THEN Zero ELSE NaN)
    ELSE FMul(x, FRecip(y))

\* x > y, x >= y on floats; every comparison with nan is False.
FGt(x, y) ==
    /\ NotNa(x) /\ NotNa(y)
    /\ IF IsFinite(x) /\ IsFinite(y)
       THEN LET g == GCD(x[2], y[2]) IN x[1] * (y[2] \div g) > y[1] * (x[2] \div g)
       ELSE IF IsFinite(x) THEN y = NegInf
       ELSE IF IsFinite(y) THEN x = Inf
       ELSE x = Inf /\ y = NegInf
FGe(x, y) == NotNa(x) /\ NotNa(y) /\ (x = y \/ FGt(x, y))

\* x ** k for an integer k >= 0 (0 ** 0 is 1, as in Python).
RECURSIVE FPow(_, _)
FPow(x, k) == IF k = 0 THEN One ELSE FMul(x, FPow(x, k - 1))

Min(a, b) == IF a < b THEN a ELSE b

SeqOf(S, n) == UNION {[1..k -> S] : k \in 0..n}

(***************************************************************************)
(* Accounts.  A numeric account is held in hundredths (221.12 is 22112);   *)
(* a summary row's account is a name ("OCC", "TCI", ...).  The Account     *)
(* column is a float column, so str() of a numeric account is the float's  *)
(* repr ("20.0", "221.12") and float() parses it back.                     *)
(***************************************************************************)
Acct(h) == [num |-> h, name |-> ""]
Named(s) == [num |-> -1, name |-> s]
IsNumeric(a) == a.name = ""

Chr(d) == <<"0", "1", "2", "3", "4", "5", "6", "7", "8", "9">>[d + 1]
Ord(c) == CHOOSE d \in 0..9 : Chr(d) = c

RECURSIVE IntDigits(_)
IntDigits(n) == IF n < 10 THEN <<Chr(n)>> ELSE Append(IntDigits(n \div 10), Chr(n % 10))

\* str(account): the repr of the float, or the name itself (one opaque token).
Str(a) ==
    IF ~IsNumeric(a) THEN <<a.name>>
    ELSE LET whole == a.num \div 100
             cents == a.num % 100
             frac  == IF cents % 10 = 0 THEN <<Chr(cents \div 10)>>
                      ELSE <<Chr(cents \div 10), Chr(cents % 10)>>
         IN  IntDigits(whole) \o <<".">> \o frac

RECURSIVE ParseInt(_)
ParseInt(s) == IF s = <<>> THEN 0 ELSE 10 * ParseInt(SubSeq(s, 1, Len(s) - 1)) + Ord(s[Len(s)])

\* float(text) of an account string, in hundredths.
ToFloat(s) ==
    LET dot   == CHOOSE k \in 1..Len(s) : s[k] = "."
        whole == ParseInt(SubSeq(s, 1, dot - 1))
        fr    == SubSeq(s, dot + 1, Len(s))
        cents == IF Len(fr) = 1 THEN 10 * Ord(fr[1]) ELSE 10 * Ord(fr[1]) + Ord(fr[2])
    IN  Acct(100 * whole + cents)

StartsWith(s, p) == Len(s) >= Len(p) /\ SubSeq(s, 1, Len(p)) = p

\* str(account).startswith(prefixes): one of the prefixes matches.
StartsWithAny(s, prefixes) == \E p \in prefixes : StartsWith(s, p)

(***************************************************************************)
(* The cost table: a sequence of rows.  Level is NoLevel (nan) on the      *)
(* summary rows; F and N are the FOAK and NOAK estimated-cost cells;       *)
(* Children is the 'Children Accounts' cell split at the commas, <<>>      *)
(* standing for None.                                                      *)
(***************************************************************************)
NoLevel == -1
TopLevel == 4

Row(a, l, t, f, n) == [Account |-> a, Level |-> l, Tag |-> t, F |-> f, N |-> n, Children |-> <<>>]

Cell(row, col) == IF col = "F" THEN row.F ELSE row.N
SetCell(row, col, v) == IF col = "F" THEN [row EXCEPT !.F = v] ELSE [row EXCEPT !.N = v]

\* Level < x on a float column: False on nan.
LevelLess(l, x) == l # NoLevel /\ l < x

(***************************************************************************)
(* find_children_accounts                                                  *)
(***************************************************************************)
\* Mutant: the scan ends at the first row that is not at source_level, so a
\* deeper row (a grandchild) ends it.
RECURSIVE ScanChildrenStopAtDeeper(_, _, _, _)
ScanChildrenStopAtDeeper(t, j, source_level, children) ==
    IF j > Len(t) THEN children
    ELSE IF t[j].Level = source_level
         THEN ScanChildrenStopAtDeeper(t, j + 1, source_level, Append(children, Str(t[j].Account)))
    ELSE children

RECURSIVE ScanChildren(_, _, _, _)
ScanChildren(t, j, source_level, children) ==
    IF j > Len(t) THEN children
    ELSE IF t[j].Level = source_level
         THEN ScanChildren(t, j + 1, source_level, Append(children, Str(t[j].Account)))
    ELSE IF LevelLess(t[j].Level, source_level) THEN children
    ELSE ScanChildren(t, j + 1, source_level, children)

find_children_accounts(t) ==
    [i \in 1..Len(t) |->
        [t[i] EXCEPT !.Children =
            IF t[i].Level \in 0..TopLevel /\ IsNaN(t[i].F)
            THEN ScanChildren(t, i + 1, t[i].Level + 1, <<>>)
            ELSE <<>>]]

(***************************************************************************)
(* calculate_high_level_accounts_cost / update_high_level_costs            *)
(***************************************************************************)
ValidPrefixes(opt) ==
    CASE opt = "base"    -> {<<"1">>, <<"2">>}
      [] opt = "other"   -> {<<"3">>, <<"4">>, <<"5">>}
      [] opt = "finance" -> {<<"6">>}
      [] opt = "annual"  -> {<<"7">>, <<"8">>}

Options == {"base", "other", "finance", "annual"}

InGroup(row, opt) == StartsWithAny(Str(row.Account), ValidPrefixes(opt))

\* df[df["Account"] == account_value]: the positions of the matching rows.
Matches(t, a) == {k \in 1..Len(t) : t[k].Account = a}

\* df[df["Account"] == account_value][cost_column].values[0]: the first match.
FirstValue(t, a, col) ==
    LET k == CHOOSE m \in Matches(t, a) : \A o \in Matches(t, a) : m <= o
    IN  Cell(t[k], col)

\* total_sum over the children list, each child looked up by float(account).
RECURSIVE ChildrenSum(_, _, _, _)
ChildrenSum(t, children, col, total_sum) ==
    IF children = <<>> THEN total_sum
    ELSE ChildrenSum(t, Tail(children), col,
                     FAdd(total_sum, FirstValue(t, ToFloat(Head(children)), col)))

\* One pass of the row loop; snap is the table iterrows() took its rows from.
RECURSIVE CalcRows(_, _, _, _, _, _)
CalcRows(t, snap, index, target_level, opt, col) ==
    IF index > Len(snap) THEN t
    ELSE LET row == snap[index]
             hit == /\ row.Level = target_level
                    /\ IsNaN(Cell(row, col))
                    /\ row.Children # <<>>
                    /\ InGroup(row, opt)
             t2  == IF hit
                    THEN [t EXCEPT ![index] =
                            SetCell(t[index], col, ChildrenSum(t, row.Children, col, Zero))]
                    ELSE t
         IN  CalcRows(t2, snap, index + 1, target_level, opt, col)

calculate_high_level_accounts_cost(t, target_level, opt, col) ==
    CalcRows(t, t, 1, target_level, opt, col)

\* Mutant: the zero fill does not look at whether the cost cell is empty.
ZeroFillAnyCost(t, level, opt) ==
    [k \in 1..Len(t) |->
        LET row == t[k]
        IN  IF row.Level = level /\ row.Children = <<>> /\ InGroup(row, opt)
            THEN [row EXCEPT !.F = Zero, !.N = Zero]
            ELSE row]

\* Mutant: only the FOAK cell is set to 0.
ZeroFill_FOAK_only(t, level, opt) ==
    [k \in 1..Len(t) |->
        LET row == t[k]
        IN  IF IsNaN(row.F) /\ row.Level = level /\ row.Children = <<>> /\ InGroup(row, opt)
            THEN [row EXCEPT !.F = Zero]
            ELSE row]

\* The loop that sets a row with neither a cost nor children to 0.
ZeroFill(t, level, opt) ==
    [k \in 1..Len(t) |->
        LET row == t[k]
            at  == row.Level = level /\ row.Children = <<>> /\ InGroup(row, opt)
        IN  IF (IsNaN(row.F) \/ IsNaN(row.N)) /\ at
            THEN [row EXCEPT !.F = IF IsNaN(row.F) THEN Zero ELSE @,
                             !.N = IF IsNaN(row.N) THEN Zero ELSE @]
            ELSE row]

RECURSIVE UpdateLevels(_, _, _)
UpdateLevels(t, level, opt) ==
    IF level < 0 THEN t
    ELSE LET df_updated   == calculate_high_level_accounts_cost(t, level, opt, "F")
             df_updated_2 == calculate_high_level_accounts_cost(df_updated, level, opt, "N")
         IN  UpdateLevels(ZeroFill(df_updated_2, level, opt), level - 1, opt)

\* Mutant: the levels are processed from 0 up to 4.
RECURSIVE UpdateLevelsAscending(_, _, _)
UpdateLevelsAscending(t, level, opt) ==
    IF level > TopLevel THEN t
    ELSE LET df_updated   == calculate_high_level_accounts_cost(t, level, opt, "F")
             df_updated_2 == calculate_high_level_accounts_cost(df_updated, level, opt, "N")
         IN  UpdateLevelsAscending(ZeroFill(df_updated_2, level, opt), level + 1, opt)

update_high_level_costs_ascending(scaled_cost, opt) ==
    UpdateLevelsAscending(find_children_accounts(scaled_cost), 0, opt)

update_high_level_costs(scaled_cost, opt) ==
    UpdateLevels(find_children_accounts(scaled_cost), TopLevel, opt)

\* A listed child that no row matches: .values[0] raises IndexError.
RollupRaises(scaled_cost, opt) ==
    LET t == find_children_accounts(scaled_cost)
    IN  \E k \in 1..Len(t) :
            /\ \E c \in 1..Len(t[k].Children) : Matches(t, ToFloat(t[k].Children[c])) = {}
            /\ InGroup(t[k], opt)

(***************************************************************************)
(* SpecRollup: update_high_level_costs called for the base group, then     *)
(* once more for the base or the other group.  The tables are those a      *)
(* sample can hand to the rollup: account ids are distinct, a row with an  *)
(* empty FOAK cell has an empty NOAK cell (NOAK is Multiplier x FOAK), and *)
(* a costed row has a NOAK cell or not according to whether it carries a   *)
(* multiplier tag.                                                         *)
(***************************************************************************)
MaxRows == 3
MaxLevel == 2

RollupGroups == {"base", "other"}

CostStates == {"empty", "costed", "costed, no NOAK"}

\* What may stand at a position: a catalog row at some level, in one of the
\* three cost states, or a summary row (which has no Level).
RollupShapes == ((0..MaxLevel) \X CostStates) \cup {<<NoLevel, "summary">>}

\* The row at position k: a base-group account (221.1k), or an other-group
\* account (3k) when k is the foreign position.
RollupRow(k, shape, foreign) ==
    IF shape[2] = "summary" THEN Row(Named("OCC"), NoLevel, "", Flt(9), Flt(8))
    ELSE Row(IF k = foreign THEN Acct(100 * (30 + k)) ELSE Acct(22110 + k),
             shape[1], "",
             IF shape[2] = "empty" THEN NaN ELSE Flt(k + 1),
             IF shape[2] = "costed" THEN Flt(k) ELSE NaN)

Unused == <<>>

InitRollup ==
    /\ \E n \in 1..MaxRows : \E shapes \in [1..n -> RollupShapes] : \E foreign \in 0..n :
          df = [k \in 1..n |-> RollupRow(k, shapes[k], foreign)]
    /\ before = df
    /\ option = "base"
    /\ pc = "scaled"
    /\ params = Unused /\ catalog = Unused /\ sample = 0 /\ COA_list = Unused /\ escalated_cost = Unused
    /\ arg = Unused /\ ret = Unused

\* updated_cost = update_high_level_costs(scaled_cost, option, i)
RollupCall ==
    /\ pc \in {"scaled", "updated"}
    /\ \E opt \in RollupGroups :
        /\ pc = "scaled" => opt = option
        /\ option' = opt
        /\ before' = df
        /\ IF RollupRaises(df, opt)
           THEN pc' = "raised" /\ df' = df
           ELSE /\ df' = update_high_level_costs(df, opt)
                /\ pc' = IF pc = "scaled" THEN "updated" ELSE "updated again"
    /\ UNCHANGED <<params, catalog, sample, COA_list, escalated_cost, arg, ret>>

NextRollup == RollupCall

SpecRollup == InitRollup /\ [][NextRollup]_vars

Updated == pc \in {"updated", "updated again"}

\* The immediate children of row i of table t, read off the ordering: the
\* rows j after i at Level+1 with no row of Level <= Level(i) in between.
ChildRows(t, i) ==
    {j \in (i + 1)..Len(t) :
        /\ t[j].Level = t[i].Level + 1
        /\ \A m \in (i + 1)..(j - 1) : ~(t[m].Level # NoLevel /\ t[m].Level <= t[i].Level)}

RECURSIVE SumCells(_, _, _)
SumCells(t, S, col) ==
    IF S = {} THEN Zero
    ELSE LET j == CHOOSE x \in S : TRUE
         IN  FAdd(Cell(t[j], col), SumCells(t, S \ {j}, col))

\* The positions in S in increasing order.
RECURSIVE Ascending(_)
Ascending(S) ==
    IF S = {} THEN <<>>
    ELSE LET j == CHOOSE x \in S : \A y \in S : x <= y
         IN  <<j>> \o Ascending(S \ {j})

WasParent(t, i, opt) ==
    /\ InGroup(t[i], opt)
    /\ t[i].Level \in 0..TopLevel
    /\ IsNaN(t[i].F) /\ IsNaN(t[i].N)
    /\ ChildRows(t, i) # {}

\* C1: after update_high_level_costs has run for a group, every in-group row
\* at Level 0-4 that had an empty cost and has immediate children holds, in the
\* FOAK and in the NOAK column, the sum of that column over those children.
C1_ParentIsSumOfChildren ==
    Updated =>
        \A i \in 1..Len(df) :
            WasParent(before, i, option) =>
                /\ df[i].F = SumCells(df, ChildRows(before, i), "F")
                /\ df[i].N = SumCells(df, ChildRows(before, i), "N")

\* A two-level rollup has happened: a parent whose child is itself a parent,
\* with costs that are numbers.
C1_Witness ==
    /\ Updated
    /\ \E i \in 1..Len(df) : \E j \in ChildRows(before, i) :
        /\ WasParent(before, i, option) /\ WasParent(before, j, option)
        /\ IsFinite(df[i].F) /\ df[i].F # Zero
        /\ IsFinite(df[i].N) /\ df[i].N # Zero

\* C2: find_children_accounts gives every row whose FOAK cost is empty exactly
\* the following rows at its Level+1, up to the first row whose Level is <= its
\* own (deeper rows are skipped), and gives no children list to a row with no
\* such followers or with a FOAK cost.
C2_ChildrenAreFollowersOneLevelDown ==
    pc = "updated" =>
        \A i \in 1..Len(df) :
            LET kids == IF IsNaN(before[i].F) /\ before[i].Level # NoLevel
                        THEN Ascending(ChildRows(before, i)) ELSE <<>>
            IN  /\ Len(df[i].Children) = Len(kids)
                /\ \A k \in 1..Len(kids) :
                       ToFloat(df[i].Children[k]) = before[kids[k]].Account

\* A scan that skipped a deeper row and then collected a child.
C2_Witness ==
    /\ pc = "updated"
    /\ \E i \in 1..Len(df) :
        /\ Len(df) >= i + 2
        /\ IsNaN(before[i].F)
        /\ before[i + 1].Level = before[i].Level + 2
        /\ before[i + 2].Level = before[i].Level + 1
        /\ df[i].Children = <<Str(before[i + 2].Account)>>

InGroupPopulated(t, opt) ==
    \A i \in 1..Len(t) : InGroup(t[i], opt) => NotNa(t[i].F) /\ NotNa(t[i].N)

Costs(t) == [i \in 1..Len(t) |-> <<t[i].F, t[i].N>>]

\* C3: the rollup is idempotent: run for a group on a table whose in-group
\* costs are all populated, it leaves every FOAK and NOAK cost unchanged.
C3_RollupIdempotent ==
    (Updated /\ InGroupPopulated(before, option)) => Costs(df) = Costs(before)

\* The second run for the same group, after a first run that summed a parent
\* and zero-filled nothing but leaves.
C3_Witness ==
    /\ pc = "updated again"
    /\ InGroupPopulated(before, option)
    /\ \E i \in 1..Len(df) :
        /\ InGroup(df[i], option)
        /\ ChildRows(df, i) # {}
        /\ IsFinite(df[i].F) /\ df[i].F # Zero
        /\ df[i].F = SumCells(df, ChildRows(df, i), "F")

(***************************************************************************)
(* _crf: the capital recovery factor                                       *)
(***************************************************************************)
\* numer / denum of one period, as numpy divides (inf or nan on a zero denum).
CrfFactor(rate, period) ==
    LET numer == FMul(rate, FPow(FAdd(One, rate), period))
        denum == FSub(FPow(FAdd(One, rate), period), One)
    IN  FDiv(numer, denum)

\* denum of one period is zero: a Python float division raises there.
CrfDenumIsZero(rate, period) == FSub(FPow(FAdd(One, rate), period), One) = Zero

\* period an array (the replacement accounts): elementwise, and with more
\* than one element every +inf is replaced by 0.
crf_array(rate, periods) ==
    [k \in 1..Len(periods) |->
        LET factor == CrfFactor(rate, periods[k])
        IN  IF Len(periods) > 1 /\ factor = Inf THEN Zero ELSE factor]

Returned(v) == [raised |-> FALSE, value |-> v]
Raised == [raised |-> TRUE, value |-> <<>>]

\* period a single number (the fuel account 82): np.array(factor).size is 1,
\* so nothing is replaced.  On a zero denum the division raises
\* ZeroDivisionError when both operands are Python floats and gives inf / nan
\* when one is a numpy float; the source fixes neither type.
crf_scalar_outcomes(rate, period) ==
    IF CrfDenumIsZero(rate, period)
    THEN {Raised, Returned(<<CrfFactor(rate, period)>>)}
    ELSE {Returned(<<CrfFactor(rate, period)>>)}

(***************************************************************************)
(* SpecCrf: _crf called once, with a single period or an array of periods. *)
(***************************************************************************)
MaxPeriod == 3
CrfArrayLen == 2

CrfRates == {Zero, Frac(1, 20), Frac(1, 10), Frac(1, 4), Frac(1, 2), One}

InitCrf ==
    /\ \E rate \in CrfRates :
          \/ \E p \in 0..MaxPeriod :
                arg = [rate |-> rate, period |-> <<p>>, shape |-> "scalar"]
          \/ \E ps \in [1..CrfArrayLen -> 0..MaxPeriod] :
                arg = [rate |-> rate, period |-> ps, shape |-> "array"]
    /\ ret = Unused
    /\ pc = "call"
    /\ params = Unused /\ catalog = Unused /\ df = Unused /\ before = Unused
    /\ option = "" /\ sample = 0 /\ COA_list = Unused /\ escalated_cost = Unused

\* annualized_fuel_cost = lump_fuel_cost * _crf(rate, refueling_period_yr)
CrfScalarCall ==
    /\ pc = "call" /\ arg.shape = "scalar"
    /\ ret' \in crf_scalar_outcomes(arg.rate, arg.period[1])
    /\ pc' = "returned"
    /\ UNCHANGED <<params, catalog, df, before, option, sample, COA_list, escalated_cost, arg>>

\* annualized_replacement_cost = A20_capital_cost * _crf(rate, A20_replacement_period)
CrfArrayCall ==
    /\ pc = "call" /\ arg.shape = "array"
    /\ ret' = Returned(crf_array(arg.rate, arg.period))
    /\ pc' = "returned"
    /\ UNCHANGED <<params, catalog, df, before, option, sample, COA_list, escalated_cost, arg>>

NextCrf == CrfScalarCall \/ CrfArrayCall

SpecCrf == InitCrf /\ [][NextCrf]_vars

\* rate (1+rate)^p / ((1+rate)^p - 1), for p > 0.
AnnuityFactor(rate, p) ==
    FMul(rate, FDiv(FPow(FAdd(One, rate), p), FSub(FPow(FAdd(One, rate), p), One)))

\* C7: _crf(rate, period) returns 0 whenever period is 0, for every rate,
\* whether period is a single number or an element of an array; for
\* period > 0 it returns rate (1+rate)^period / ((1+rate)^period - 1).
C7_CrfZeroAtPeriodZero ==
    pc = "returned" =>
        /\ ~ret.raised
        /\ \A k \in 1..Len(arg.period) :
            /\ arg.period[k] = 0 => ret.value[k] = Zero
            /\ (arg.period[k] > 0 /\ arg.rate # Zero) =>
                   ret.value[k] = AnnuityFactor(arg.rate, arg.period[k])

(***************************************************************************)
(* learning_rate_multiplier                                                *)
(***************************************************************************)
RECURSIVE Log2OfPowerOfTwo(_)
Log2OfPowerOfTwo(d) == IF d = 1 THEN 0 ELSE 1 + Log2OfPowerOfTwo(d \div 2)

\* pow(base, np.log2(m)) for a base 1/2^k, where it is exactly 1/m^k, and for
\* base 0 (0 ** 0 is 1).  The model draws its learning rates from
\* 1 - 1/2^k, for which the result is a rational the model can hold.
PowLog2(base, m) ==
    IF base = Zero THEN (IF m = 1 THEN One ELSE Zero)
    ELSE FRecip(FPow(Flt(m), Log2OfPowerOfTwo(base[2])))

\* Mutant: the units are not capped at 100.
learning_rate_multiplier_uncapped(learning_rate, number_of_units) ==
    PowLog2(FSub(One, learning_rate), number_of_units)

learning_rate_multiplier(learning_rate, number_of_units) ==
    PowLog2(FSub(One, learning_rate), Min(100, number_of_units))

(***************************************************************************)
(* SpecLearning: learning_rate_multiplier called for n = 1, 2, 3, ...      *)
(***************************************************************************)
MaxUnits == 102

LearningRates == {Zero, Frac(1, 2), Frac(3, 4), Frac(7, 8), One}

InitLearning ==
    /\ \E rate \in LearningRates : arg = [rate |-> rate, n |-> 1]
    /\ ret = learning_rate_multiplier(arg.rate, arg.n)
    /\ pc = "learning"
    /\ params = Unused /\ catalog = Unused /\ df = Unused /\ before = Unused
    /\ option = "" /\ sample = 0 /\ COA_list = Unused /\ escalated_cost = Unused

LearningCallNextUnit ==
    /\ pc = "learning" /\ arg.n < MaxUnits
    /\ arg' = [arg EXCEPT !.n = @ + 1]
    /\ ret' = learning_rate_multiplier(arg.rate, arg.n + 1)
    /\ UNCHANGED <<params, catalog, df, before, option, pc, sample, COA_list, escalated_cost>>

NextLearning == LearningCallNextUnit

SpecLearning == InitLearning /\ [][NextLearning]_vars

\* C8: learning_rate_multiplier(rate, n) is non-increasing in n, has the same
\* value for every n >= 100, and is 1 for every n when rate is 0.
C8_LearningMonotoneAndCapped ==
    [][/\ FGe(ret, ret')
       /\ arg.n >= 100 => ret' = ret
       /\ arg.rate = Zero => (ret = One /\ ret' = One)]_vars

\* Past the cap: the 102nd unit at a 50% learning rate costs 1/100.
C8_Witness ==
    /\ pc = "learning" /\ arg.n > 100
    /\ arg.rate = Frac(1, 2) /\ ret = Frac(1, 100)

(***************************************************************************)
(* remove_irrelevant_account                                               *)
(***************************************************************************)
\* An empty catalog cell (pandas reads it as nan).
EmptyCell == ""
IsNa(cell) == cell = EmptyCell

\* row[var] in params and params[row[var]] == row[val]
OptionSelected(p, var, val) == var \in DOMAIN p /\ p[var] = val

\* The body of the loop for one row: "drop" when a present pair fails (the
\* primary pair first, and the secondary pair is not looked at after that),
\* "raise" when a selected pair is printed and the table has no
\* 'Account Name' column to print, "keep" otherwise.
\* Mutant: the secondary pair is never looked at.
RowOutcomePrimaryOnly(row, p, columns) ==
    IF ~IsNa(row.OptVar) /\ ~OptionSelected(p, row.OptVar, row.OptVal) THEN "drop"
    ELSE IF ~IsNa(row.OptVar) /\ "Account Name" \notin columns THEN "raise"
    ELSE "keep"

RowOutcome(row, p, columns) ==
    IF ~IsNa(row.OptVar) /\ ~OptionSelected(p, row.OptVar, row.OptVal) THEN "drop"
    ELSE IF ~IsNa(row.OptVar) /\ "Account Name" \notin columns THEN "raise"
    ELSE IF ~IsNa(row.SecVar) /\ ~OptionSelected(p, row.SecVar, row.SecVal) THEN "drop"
    ELSE IF ~IsNa(row.SecVar) /\ "Account Name" \notin columns THEN "raise"
    ELSE "keep"

\* for index, row in df.iterrows(): the labels collected in indices_to_drop.
RECURSIVE IndicesToDrop(_, _, _, _)
IndicesToDrop(t, p, columns, i) ==
    IF i > Len(t) THEN {}
    ELSE (IF RowOutcome(t[i], p, columns) = "drop" THEN {t[i].index} ELSE {})
         \cup IndicesToDrop(t, p, columns, i + 1)

\* The loop raises KeyError at the first row that prints.
RemoveRaises(t, p, columns) ==
    \E i \in 1..Len(t) : RowOutcome(t[i], p, columns) = "raise"

\* df.drop(labels): every row carrying one of the labels goes.
RECURSIVE Drop(_, _)
Drop(t, labels) ==
    IF t = <<>> THEN <<>>
    ELSE IF Head(t).index \in labels THEN Drop(Tail(t), labels)
    ELSE <<Head(t)>> \o Drop(Tail(t), labels)

remove_irrelevant_account(t, p, columns) == Drop(t, IndicesToDrop(t, p, columns, 1))

(***************************************************************************)
(* SpecRemove: remove_irrelevant_account called once on a catalog whose    *)
(* rows carry every combination of optional pairs.                         *)
(***************************************************************************)
MaxOptRows == 3

\* The optional pairs a row can carry: none, one the design selects or not,
\* one whose variable the design may not have at all.
PrimaryPairs == {<<EmptyCell, EmptyCell>>, <<"Reactor", "LTMR">>, <<"Reactor", "GCMR">>,
                 <<"Heat Pipe", "Yes">>}
SecondaryPairs == {<<EmptyCell, EmptyCell>>, <<"Moderator", "ZrH">>, <<"Moderator", "Graphite">>}

OptRow(k, prim, sec) ==
    [index |-> k - 1, Account |-> Acct(22110 + k),
     OptVar |-> prim[1], OptVal |-> prim[2], SecVar |-> sec[1], SecVal |-> sec[2]]

\* The design parameter sets: 'Reactor' always set, 'Moderator' set or not,
\* 'Heat Pipe' never set.
RemoveParams ==
    {[v \in {"Reactor"} |-> r] : r \in {"LTMR", "GCMR"}}
    \cup {[v \in {"Reactor", "Moderator"} |-> IF v = "Reactor" THEN r ELSE "ZrH"] :
             r \in {"LTMR", "GCMR"}}

InitRemove ==
    /\ \E n \in 1..MaxOptRows :
         \E prims \in [1..n -> PrimaryPairs], secs \in [1..n -> SecondaryPairs] :
            df = [k \in 1..n |-> OptRow(k, prims[k], secs[k])]
    /\ params \in RemoveParams
    /\ \E columns \in {{"Account", "Account Name"}, {"Account", "Account Title"}} :
          catalog = [columns |-> columns]
    /\ before = Unused /\ pc = "escalated"
    /\ option = "" /\ sample = 0 /\ COA_list = Unused /\ escalated_cost = Unused /\ arg = Unused /\ ret = Unused

\* escalated_cost_cleaned = remove_irrelevant_account(escalated_cost, params)
RemoveCall ==
    /\ pc = "escalated"
    /\ before' = df
    /\ IF RemoveRaises(df, params, catalog.columns)
       THEN pc' = "raised" /\ df' = df
       ELSE pc' = "removed" /\ df' = remove_irrelevant_account(df, params, catalog.columns)
    /\ UNCHANGED <<params, catalog, option, sample, COA_list, escalated_cost, arg, ret>>

NextRemove == RemoveCall

SpecRemove == InitRemove /\ [][NextRemove]_vars

\* A present pair fails: its variable is not a design parameter, or the
\* parameter's value differs from the row's value.
PairFails(var, val) == ~IsNa(var) /\ (var \notin DOMAIN params \/ params[var] # val)
Irrelevant(row) == PairFails(row.OptVar, row.OptVal) \/ PairFails(row.SecVar, row.SecVal)
RECURSIVE KeptInOrder(_)
KeptInOrder(t) ==
    IF t = <<>> THEN <<>>
    ELSE (IF Irrelevant(Head(t)) THEN <<>> ELSE <<Head(t)>>) \o KeptInOrder(Tail(t))

\* C5: remove_irrelevant_account drops a row exactly when its primary pair
\* is present and fails to match the design parameters or its secondary pair
\* is present and fails; a row with neither pair is kept; the kept rows keep
\* their relative order.
C5_DropsExactlyFailingRows ==
    pc = "removed" =>
        /\ df = KeptInOrder(before)
        /\ \A i \in 1..Len(before) :
              (IsNa(before[i].OptVar) /\ IsNa(before[i].SecVar)) =>
                  \E j \in 1..Len(df) : df[j] = before[i]

\* A table of three rows: the first kept with neither pair, the second
\* dropped on its secondary pair alone, the third kept with both pairs
\* selected.
C5_Witness ==
    /\ pc = "removed"
    /\ Len(before) = 3 /\ Len(df) = 2
    /\ IsNa(before[1].OptVar) /\ IsNa(before[1].SecVar)
    /\ ~PairFails(before[2].OptVar, before[2].OptVal) /\ ~IsNa(before[2].OptVar)
    /\ PairFails(before[2].SecVar, before[2].SecVal)
    /\ ~IsNa(before[3].OptVar) /\ ~IsNa(before[3].SecVar)
    /\ df = <<before[1], before[3]>>

(***************************************************************************)
(* The cost catalog and escalate_cost_database                             *)
(*                                                                         *)
(* A catalog row is a record of its cells.  A cost cell is a float (nan    *)
(* when empty); Refs gives, for each of the six cost cells, the parameter  *)
(* name the cell holds instead of a number ("" when it holds none).  The   *)
(* text cells are strings, "" when empty.  Mult and the Adj cells are the  *)
(* columns escalation adds.                                                *)
(***************************************************************************)
CostColumns == {"Fixed", "FixedLo", "FixedHi", "Unit", "UnitLo", "UnitHi"}

CatRow(index, account, level, tag, fixed, unit, sv, ref, exponent, eq) ==
    [index |-> index, Account |-> account, Level |-> level, Tag |-> tag,
     Fixed |-> fixed, FixedLo |-> NaN, FixedHi |-> NaN, FixedDist |-> EmptyCell,
     Unit |-> unit, UnitLo |-> NaN, UnitHi |-> NaN, UnitDist |-> EmptyCell,
     Refs |-> [c \in CostColumns |-> ""],
     SV |-> sv, Ref |-> ref,
     Exponent |-> exponent, ExpMin |-> NaN, ExpMax |-> NaN, ExpDist |-> EmptyCell,
     StdEq |-> eq, DollarYear |-> NaN, Type |-> "NA",
     OptVar |-> EmptyCell, OptVal |-> EmptyCell, SecVar |-> EmptyCell, SecVal |-> EmptyCell,
     Mult |-> NaN, AdjFixed |-> NaN, AdjFixedLo |-> NaN, AdjFixedHi |-> NaN,
     AdjUnit |-> NaN, AdjUnitLo |-> NaN, AdjUnitHi |-> NaN]

\* resolve_value on the six cost cells of a row; the caller has checked
\* that every referenced parameter exists.
ResolveRow(row, p) ==
    LET val(c) == IF row.Refs[c] = "" THEN row[c] ELSE p[row.Refs[c]]
    IN  [row EXCEPT !.Fixed = val("Fixed"), !.FixedLo = val("FixedLo"), !.FixedHi = val("FixedHi"),
                    !.Unit = val("Unit"), !.UnitLo = val("UnitLo"), !.UnitHi = val("UnitHi"),
                    !.Refs = [c \in CostColumns |-> ""]]

\* raise KeyError(f"Parameter '{val}' not found in params.")
ResolveRaises(t, p) ==
    \E i \in 1..Len(t) : \E c \in CostColumns :
        t[i].Refs[c] # "" /\ t[i].Refs[c] \notin DOMAIN p

\* calculate_inflation_multiplier: the inflation sheet is a function from
\* the years it lists to the index of each cost type.  A year the sheet does
\* not list is only printed; the lookup then fails for a type other than
\* 'NA' (.values[0] of an empty selection), and int() fails on an empty
\* Dollar Year.
calculate_inflation_multiplier(inflation, base_dollar_year, cost_type, escalation_year) ==
    IF IsNaN(base_dollar_year) THEN Raised
    ELSE IF cost_type = "NA" THEN Returned(One)
    ELSE IF base_dollar_year[1] \notin DOMAIN inflation
            \/ escalation_year[1] \notin DOMAIN inflation THEN Raised
    ELSE IF cost_type \notin DOMAIN inflation[base_dollar_year[1]] THEN Raised
    ELSE Returned(FDiv(inflation[base_dollar_year[1]][cost_type],
                       inflation[escalation_year[1]][cost_type]))

\* Mutant: a row with neither cost is given the index ratio as well.
RowMultiplier_always_indexed(inflation, row, escalation_year) ==
    calculate_inflation_multiplier(inflation, row.DollarYear, row.Type, escalation_year)

\* The multiplier of one resolved row: 0 for a row with neither cost.
RowMultiplier(inflation, row, escalation_year) ==
    IF NotNa(row.Fixed) \/ NotNa(row.Unit)
    THEN calculate_inflation_multiplier(inflation, row.DollarYear, row.Type, escalation_year)
    ELSE Returned(Zero)

\* df['inflation_multiplier'] and the six 'Adjusted ...' columns.
AdjustRow(row, multiplier) ==
    [row EXCEPT !.Mult = multiplier,
                !.AdjFixed = FMul(row.Fixed, multiplier),
                !.AdjFixedLo = FMul(row.FixedLo, multiplier),
                !.AdjFixedHi = FMul(row.FixedHi, multiplier),
                !.AdjUnit = FMul(row.Unit, multiplier),
                !.AdjUnitLo = FMul(row.UnitLo, multiplier),
                !.AdjUnitHi = FMul(row.UnitHi, multiplier)]

\* for parameter, value in extra_economic_parameters.items(): params[parameter] = value
MergeParams(p, extra) ==
    [k \in DOMAIN p \cup DOMAIN extra |-> IF k \in DOMAIN extra THEN extra[k] ELSE p[k]]

\* The whole of escalate_cost_database: the table and the parameters it
\* leaves, or a raise.  file is the workbook: its 'Cost Database' rows, its
\* 'Inflation Adjustment' sheet and its 'Economics Parameters' sheet.
escalate_cost_database(file, escalation_year, p) ==
    IF ResolveRaises(file.rows, p) THEN Raised
    ELSE LET resolved == [i \in 1..Len(file.rows) |-> ResolveRow(file.rows[i], p)]
             mult == [i \in 1..Len(resolved) |->
                         RowMultiplier(file.inflation, resolved[i], escalation_year)]
         IN  IF \E i \in 1..Len(resolved) : mult[i].raised THEN Raised
             ELSE Returned([df |-> [i \in 1..Len(resolved) |-> AdjustRow(resolved[i], mult[i].value)],
                            params |-> MergeParams(p, file.economics)])

(***************************************************************************)
(* scale_cost                                                              *)
(***************************************************************************)
\* A local variable of scale_cost that no row has assigned yet.
Unbound == <<0, -1>>

\* cost.sampling.sampler: a draw between the two ends of the distribution.
\* The model draws each end.
sampler(low, high) == {low, high}

\* fixed_cost / unit_cost of a row: 0 for an empty cell, a draw when more
\* than one sample is asked for and a distribution is named, else the
\* adjusted nominal value.
CostDraws(cell, nominal, low, high, dist, p) ==
    IF IsNaN(cell) THEN {Zero}
    ELSE IF FGt(p["Number of Samples"], One) /\ dist \in {"Lognormal", "Uniform"}
         THEN sampler(low, high)
    ELSE {nominal}

\* exponent: assigned only when the row has one, so that a row without one
\* goes on with the value the loop holds.
ExponentDraws(row, p, exponent) ==
    IF IsNaN(row.Exponent) THEN {exponent}
    ELSE IF FGt(p["Number of Samples"], One) /\ row.ExpDist = "Truncated Normal"
         THEN sampler(row.ExpMin, row.ExpMax)
    ELSE {row.Exponent}

\* pow(x, e) for an exponent that is a whole number (the exponents the
\* model draws).
PowF(x, e) == IF e[1] >= 0 THEN FPow(x, e[1]) ELSE FRecip(FPow(x, 0 - e[1]))

\* b ** e for a positive exponent that is not a whole number, and log(b):
\* exact at the bases the model's parameters give (0 and 1).
PowReal(b) == IF b = One THEN One ELSE IF b = Zero THEN Zero ELSE NaN
LogReal(b) == IF b = One THEN Zero ELSE NaN

\* Mutant: an enrichment of exactly 0.2 still gets the 1.15 premium.
EnrichmentPremium_threshold_excluded(enrichment) ==
    IF FGt(enrichment, Frac(1, 5)) THEN Raised
    ELSE IF FGe(enrichment, Frac(1, 10)) THEN Returned(Frac(23, 20))
    ELSE IF FGt(Frac(1, 10), enrichment) THEN Returned(One)
    ELSE Raised

\* cost_premium of account 253: 1 below 0.1, 1.15 from 0.1 to below 0.2,
\* ValueError from 0.2 on; a nan enrichment leaves cost_premium unassigned.
EnrichmentPremium(enrichment) ==
    IF FGe(enrichment, Frac(1, 5)) THEN Raised
    ELSE IF FGe(enrichment, Frac(1, 10)) THEN Returned(Frac(23, 20))
    ELSE IF FGt(Frac(1, 10), enrichment) THEN Returned(One)
    ELSE Raised

non_standard_cost_scale(account, unit_cost, scaling_variable_value, exponent, p) ==
    LET power == PowF(scaling_variable_value, exponent)
        Times(key, x) ==
            IF key \in DOMAIN p THEN Returned(FMul(FMul(p[key], unit_cost), x)) ELSE Raised
    IN  CASE account \in {Acct(22211), Acct(22212)} ->
                 IF "Pump Isentropic Efficiency" \notin DOMAIN p THEN Raised
                 ELSE IF p["Pump Isentropic Efficiency"] = One THEN Raised
                 ELSE Returned(FMul(FMul(FAdd(FDiv(Frac(1, 5),
                                   FSub(One, p["Pump Isentropic Efficiency"])), One), unit_cost), power))
          [] account = Acct(22213) /\ "Primary Loop Count" \in DOMAIN p ->
                 IF {"Primary Loop Outlet Temperature", "Primary Loop Compressor Power"}
                        \subseteq DOMAIN p
                 THEN Returned(FMul(FMul(
                          PowReal(FDiv(FSub(p["Primary Loop Outlet Temperature"], Frac(27315, 100)),
                                       Flt(650))),
                          PowReal(FDiv(FDiv(p["Primary Loop Compressor Power"], Flt(1000000)),
                                       Frac(13, 5)))), unit_cost))
                 ELSE Raised
          [] account = Acct(22213) /\ "Primary Loop Count" \notin DOMAIN p ->
                 IF {"Compressor Isentropic Efficiency", "Compressor Pressure Ratio"}
                        \subseteq DOMAIN p
                    /\ p["Compressor Isentropic Efficiency"] # Frac(19, 20)
                 THEN Returned(FMul(FMul(FMul(FMul(
                          FRecip(FSub(Frac(19, 20), p["Compressor Isentropic Efficiency"])),
                          p["Compressor Pressure Ratio"]),
                          LogReal(p["Compressor Pressure Ratio"])), unit_cost), power))
                 ELSE Raised
          [] account = Acct(25300) ->
                 IF "Enrichment" \notin DOMAIN p THEN Raised
                 ELSE LET cost_premium == EnrichmentPremium(p["Enrichment"])
                      IN  IF cost_premium.raised THEN Raised
                          ELSE Returned(FMul(FMul(cost_premium.value, unit_cost), power))
          [] account = Acct(71100) -> Times("FTEs Per Onsite Operator Per Year", power)
          [] account = Acct(71200) ->
                 IF scaling_variable_value = Zero THEN Raised
                 ELSE Times("FTEs Per Offsite Operator (24/7)",
                            PowF(FRecip(scaling_variable_value), exponent))
          [] account = Acct(71300) -> Times("FTEs Per Security Staff (24/7)", power)
          [] account = Acct(72100) -> Times("Annual Coolant Supply Frequency", scaling_variable_value)
          [] account = Acct(8100) -> Times("FTEs Per Operator Per Year Per Refueling", power)
          [] OTHER -> Raised

\* Mutant: the standard equation without its zero branch.
standard_cost_without_zero_branch(row, value, fixed_cost, unit_cost, exponent) ==
    IF FGt(row.Ref, Zero)
    THEN IF exponent = Unbound THEN Raised
         ELSE Returned(FAdd(fixed_cost, FDiv(FMul(unit_cost, PowF(value, exponent)),
                                              PowF(row.Ref, FSub(exponent, One)))))
    ELSE Returned(FAdd(fixed_cost, FMul(unit_cost, value)))

\* The branch for 'Standard Cost Equation?' == 'standard'.
standard_cost(row, value, fixed_cost, unit_cost, exponent) ==
    IF ~IsNa(row.SV) /\ value = Zero THEN Returned(Zero)
    ELSE IF FGt(row.Ref, Zero)
    THEN IF exponent = Unbound THEN Raised
         ELSE Returned(FAdd(fixed_cost, FDiv(FMul(unit_cost, PowF(value, exponent)),
                                              PowF(row.Ref, FSub(exponent, One)))))
    ELSE Returned(FAdd(fixed_cost, FMul(unit_cost, value)))

\* estimated_cost of an evaluated row, given its draws; a row whose equation
\* kind is neither goes on with the estimated_cost the loop holds.
RowCost(row, p, value, fixed_cost, unit_cost, exponent, estimated_cost) ==
    IF row.StdEq = "standard"
    THEN standard_cost(row, value, fixed_cost, unit_cost, exponent)
    ELSE IF row.StdEq = "nonstandard"
    THEN IF ~IsNa(row.SV) /\ value = Zero THEN Returned(Zero)
         ELSE IF exponent = Unbound THEN Raised
         ELSE non_standard_cost_scale(row.Account, unit_cost, value, exponent, p)
    ELSE IF estimated_cost = Unbound THEN Raised
    ELSE Returned(estimated_cost)

\* for index, row in initial_database.iterrows(): every table the loop can
\* leave (one for each combination of draws), or a raise.  exponent and
\* estimated_cost are the loop's locals; out is scaled_cost so far.
RECURSIVE ScaleRows(_, _, _, _, _, _)
ScaleRows(t, p, i, exponent, estimated_cost, out) ==
    IF i > Len(t) THEN {Returned(out)}
    ELSE LET row == t[i]
             blank == Row(row.Account, row.Level, row.Tag, NaN, NaN)
         IN  IF ~(FGt(row.Fixed, Zero) \/ FGt(row.Unit, Zero))
             THEN ScaleRows(t, p, i + 1, exponent, estimated_cost, Append(out, blank))
             ELSE IF ~IsNa(row.SV) /\ row.SV \notin DOMAIN p THEN {Raised}
             ELSE LET value == IF ~IsNa(row.SV) THEN p[row.SV] ELSE Zero
                      draws == CostDraws(row.Fixed, row.AdjFixed, row.AdjFixedLo,
                                         row.AdjFixedHi, row.FixedDist, p)
                               \X CostDraws(row.Unit, row.AdjUnit, row.AdjUnitLo,
                                            row.AdjUnitHi, row.UnitDist, p)
                               \X ExponentDraws(row, p, exponent)
                  IN  UNION {LET c == RowCost(row, p, value, d[1], d[2], d[3], estimated_cost)
                             IN  IF c.raised THEN {Raised}
                                 ELSE ScaleRows(t, p, i + 1, d[3], c.value,
                                                Append(out, [blank EXCEPT !.F = c.value]))
                             : d \in draws}

scale_cost(initial_database, p) == ScaleRows(initial_database, p, 1, Unbound, Unbound, <<>>)

(***************************************************************************)
(* SpecScale: scale_cost called once on an escalated table of two rows.    *)
(* The first row is one that sets, or does not set, the loop's locals; the *)
(* second row takes every combination of cost, scaling and equation cells. *)
(***************************************************************************)
\* The row before: not evaluated, or a standard row that assigns exponent
\* and estimated_cost.
FirstScaleRows ==
    {CatRow(0, Acct(22110), 2, "No Learning", NaN, NaN, EmptyCell, NaN, NaN, "standard"),
     CatRow(0, Acct(22110), 2, "No Learning", Flt(7), Flt(3), "Power MWe", Flt(4), Flt(2), "standard")}

\* The cells of the second row.  "Mass" is a scaling variable the design
\* parameters do not have.
ScaleShapes ==
    [Fixed : {NaN, Zero, Flt(100)}, Unit : {NaN, Flt(10)},
     SV : {EmptyCell, "Power MWe", "Mass"}, Ref : {NaN, Flt(4)},
     Exponent : {NaN, One, Flt(2)}, StdEq : {"standard", "nonstandard", EmptyCell},
     Sampled : BOOLEAN]

\* A second row of a given shape: account 711 (one of the nonstandard
\* accounts), with the distributions named when Sampled.
SecondScaleRow(s) ==
    LET row == CatRow(1, Acct(71100), 2, "No Learning", s.Fixed, s.Unit, s.SV, s.Ref,
                      s.Exponent, s.StdEq)
    IN  IF s.Sampled
        THEN [row EXCEPT !.FixedDist = "Uniform", !.FixedLo = FMul(s.Fixed, Frac(1, 2)),
                         !.FixedHi = FMul(s.Fixed, Flt(2)),
                         !.UnitDist = "Lognormal", !.UnitLo = FMul(s.Unit, Frac(1, 2)),
                         !.UnitHi = FMul(s.Unit, Flt(2)),
                         !.ExpDist = "Truncated Normal", !.ExpMin = One, !.ExpMax = Flt(3)]
        ELSE row

ScaleParams ==
    {[k \in {"Escalation Year", "Number of Samples", "Power MWe",
             "FTEs Per Onsite Operator Per Year"} |->
        CASE k = "Escalation Year" -> Flt(2023)
          [] k = "Number of Samples" -> Flt(n)
          [] k = "Power MWe" -> power
          [] OTHER -> Flt(3)] : n \in 1..2, power \in {Zero, Flt(2)}}

InitScale ==
    /\ \E first \in FirstScaleRows, s \in ScaleShapes, multiplier \in {One, Flt(2)} :
          escalated_cost = <<AdjustRow(first, multiplier), AdjustRow(SecondScaleRow(s), multiplier)>>
    /\ params \in ScaleParams
    /\ pc = "cleaned"
    /\ df = Unused /\ before = Unused /\ catalog = Unused /\ COA_list = Unused
    /\ option = "" /\ sample = 0 /\ arg = Unused /\ ret = Unused

\* scaled_cost = scale_cost(escalated_cost_cleaned, params)
ScaleCall ==
    /\ pc = "cleaned"
    /\ \E outcome \in scale_cost(escalated_cost, params) :
          IF outcome.raised
          THEN pc' = "raised" /\ df' = df
          ELSE pc' = "scaled" /\ df' = outcome.value
    /\ UNCHANGED <<params, catalog, before, option, sample, COA_list, escalated_cost, arg, ret>>

NextScale == ScaleCall

SpecScale == InitScale /\ [][NextScale]_vars

\* scale_cost evaluates the row: Fixed Cost > 0 or Unit Cost > 0.
Evaluated(row) == FGt(row.Fixed, Zero) \/ FGt(row.Unit, Zero)
\* The scaling-variable value scale_cost resolves for a row: the parameter's
\* value, 0 for a row without a scaling variable.
ScalingValue(row) == IF IsNa(row.SV) THEN Zero ELSE params[row.SV]

\* C6 as stated: a standard row that scale_cost evaluates and whose
\* scaling-variable value is 0 gets a FOAK estimated cost of exactly 0.
C6_AsStated ==
    pc = "scaled" =>
        \A i \in 1..Len(df) :
            (/\ escalated_cost[i].StdEq = "standard"
             /\ Evaluated(escalated_cost[i])
             /\ ScalingValue(escalated_cost[i]) = Zero)
            => df[i].F = Zero

\* C6 (amended): a standard row that scale_cost evaluates and that declares
\* a scaling variable whose parameter value is 0 gets a FOAK estimated cost
\* of exactly 0, whatever its fixed cost, unit cost, reference value and
\* exponent are; a row without a scaling variable keeps its fixed cost.
C6_DeclaredZeroGivesZero ==
    pc = "scaled" =>
        \A i \in 1..Len(df) :
            LET row == escalated_cost[i]
            IN  (row.StdEq = "standard" /\ Evaluated(row)) =>
                   /\ (~IsNa(row.SV) /\ params[row.SV] = Zero) => df[i].F = Zero
                   /\ (IsNa(row.SV) /\ ~FGt(row.Ref, Zero)) =>
                          df[i].F \in CostDraws(row.Fixed, row.AdjFixed, row.AdjFixedLo,
                                                row.AdjFixedHi, row.FixedDist, params)

\* A standard row with a fixed cost of 100, a unit cost of 10, a reference
\* value and an exponent, whose declared scaling variable is 0: cost 0.
C6_Witness ==
    /\ pc = "scaled"
    /\ escalated_cost[2].StdEq = "standard"
    /\ escalated_cost[2].Fixed = Flt(100) /\ escalated_cost[2].Unit = Flt(10)
    /\ escalated_cost[2].Ref = Flt(4) /\ escalated_cost[2].Exponent = Flt(2)
    /\ escalated_cost[2].SV = "Power MWe" /\ params["Power MWe"] = Zero
    /\ df[2].F = Zero

(***************************************************************************)
(* scale_redundant_BOP_and_primary_loop and FOAK_to_NOAK                   *)
(***************************************************************************)
\* df.loc[mask, cost_col] *= factor, the mask given as the set of the rows
\* it selects.
TimesWhere(t, mask, factor) ==
    [k \in 1..Len(t) |-> IF k \in mask THEN [t[k] EXCEPT !.F = FMul(@, factor)] ELSE t[k]]

\* int(x) of a non-negative float.
IntOf(x) == Flt(x[1] \div x[2])

scale_redundant_BOP_and_primary_loop(t, p) ==
    LET Prefix(chars) == {k \in 1..Len(t) : StartsWith(Str(t[k].Account), chars)}
        Is226 == {k \in 1..Len(t) : t[k].Account = Acct(22600)}
        t1 == IF "Primary Loop Count" \in DOMAIN p
              THEN TimesWhere(t, Prefix(<<"2", "2", "2">>), p["Primary Loop Count"]) ELSE t
        t2 == IF "BoP Count" \in DOMAIN p
              THEN TimesWhere(TimesWhere(t1, Prefix(<<"2", "3", "2">>), p["BoP Count"]),
                              Prefix(<<"2", "1", "3", ".", "1">>), p["BoP Count"])
              ELSE t1
    IN  IF "Primary Loop Purification" \in DOMAIN p
        THEN TimesWhere(t2, Is226, IntOf(p["Primary Loop Purification"])) ELSE t2

\* The tags of the loop that computes the multipliers with NOAK Unit Number
\* units; get_multiplier recognizes these and 'Onsite Learning'.
LearningTypes ==
    {"No Learning", "Licensing Learning", "Factory Primary Structure", "Factory Drums",
     "Factory Other", "Factory Be", "Factory BeO", "Non-nuclear off-the-shelf"}

CostMultiplier(type) ==
    CASE type = "No Learning" -> "No Learning Cost Multiplier"
      [] type = "Licensing Learning" -> "Licensing Learning Cost Multiplier"
      [] type = "Factory Primary Structure" -> "Factory Primary Structure Cost Multiplier"
      [] type = "Factory Drums" -> "Factory Drums Cost Multiplier"
      [] type = "Factory Other" -> "Factory Other Cost Multiplier"
      [] type = "Factory Be" -> "Factory Be Cost Multiplier"
      [] type = "Factory BeO" -> "Factory BeO Cost Multiplier"
      [] type = "Non-nuclear off-the-shelf" -> "Non-nuclear off-the-shelf Cost Multiplier"
      [] type = "Onsite Learning" -> "Onsite Learning Cost Multiplier"

\* Mutant: the onsite multiplier is computed with NOAK Unit Number units.
LearningParamsOnsiteNotDoubled(p) ==
    LET units == IF "NOAK Unit Number" \in DOMAIN p THEN p["NOAK Unit Number"] ELSE Flt(10)
    IN  MergeParams(p,
            [k \in {"NOAK Unit Number", "Assumed Number Of Units For Onsite Learning"}
                   \cup {CostMultiplier(type) : type \in LearningTypes \cup {"Onsite Learning"}} |->
                CASE k = "NOAK Unit Number" -> units
                  [] k = "Assumed Number Of Units For Onsite Learning" -> FMul(units, Flt(2))
                  [] OTHER ->
                       LET type == CHOOSE ty \in LearningTypes \cup {"Onsite Learning"} :
                                       CostMultiplier(ty) = k
                       IN  learning_rate_multiplier(p[type], units[1])])

\* Mutant: every call counts one more unit.
LearningParams_counting_units(p) ==
    LET units == IF "NOAK Unit Number" \in DOMAIN p THEN FAdd(p["NOAK Unit Number"], One)
                                                      ELSE Flt(10)
        onsite == FMul(units, Flt(2))
    IN  MergeParams(p,
            [k \in {"NOAK Unit Number", "Assumed Number Of Units For Onsite Learning"}
                   \cup {CostMultiplier(type) : type \in LearningTypes \cup {"Onsite Learning"}} |->
                CASE k = "NOAK Unit Number" -> units
                  [] k = "Assumed Number Of Units For Onsite Learning" -> onsite
                  [] k = "Onsite Learning Cost Multiplier" ->
                       learning_rate_multiplier(p["Onsite Learning"], onsite[1])
                  [] OTHER ->
                       LET type == CHOOSE ty \in LearningTypes : CostMultiplier(ty) = k
                       IN  learning_rate_multiplier(p[type], units[1])])

\* The parameters FOAK_to_NOAK writes: the default NOAK Unit Number, the
\* onsite unit count and the nine cost multipliers.
LearningParams(p) ==
    LET units == IF "NOAK Unit Number" \in DOMAIN p THEN p["NOAK Unit Number"] ELSE Flt(10)
        onsite == FMul(units, Flt(2))
    IN  MergeParams(p,
            [k \in {"NOAK Unit Number", "Assumed Number Of Units For Onsite Learning"}
                   \cup {CostMultiplier(type) : type \in LearningTypes \cup {"Onsite Learning"}} |->
                CASE k = "NOAK Unit Number" -> units
                  [] k = "Assumed Number Of Units For Onsite Learning" -> onsite
                  [] k = "Onsite Learning Cost Multiplier" ->
                       learning_rate_multiplier(p["Onsite Learning"], onsite[1])
                  [] OTHER ->
                       LET type == CHOOSE ty \in LearningTypes : CostMultiplier(ty) = k
                       IN  learning_rate_multiplier(p[type], units[1])])

\* Mutant: a tag that is not one of the nine gets the multiplier 1.
get_multiplier_default_one(p, multiplier_type) ==
    IF multiplier_type \in LearningTypes \cup {"Onsite Learning"}
    THEN p[CostMultiplier(multiplier_type)] ELSE One

\* get_multiplier: nan for a tag that is not one of the nine.
get_multiplier(p, multiplier_type) ==
    IF multiplier_type \in LearningTypes \cup {"Onsite Learning"}
    THEN p[CostMultiplier(multiplier_type)] ELSE NaN

\* df[noak_column] = df['Multiplier'] * df[foak_col], with the parameters
\* LearningParams has written.
FOAK_to_NOAK(t, p) ==
    [k \in 1..Len(t) |-> [t[k] EXCEPT !.N = FMul(get_multiplier(p, t[k].Tag), t[k].F)]]

(***************************************************************************)
(* The indirect, annualized and capital accounts (non_direct_cost.py)      *)
(***************************************************************************)
\* df[df['Account'].isin(accounts)][col].sum(): pandas skips the nan cells.
RECURSIVE ColumnSum(_, _, _)
ColumnSum(t, accounts, col) ==
    IF t = <<>> THEN Zero
    ELSE LET rest == ColumnSum(Tail(t), accounts, col)
         IN  IF Head(t).Account \in accounts /\ NotNa(Cell(Head(t), col))
             THEN FAdd(Cell(Head(t), col), rest) ELSE rest

\* df.loc[df['Account'].isin(accounts), col].values.sum(): numpy does not skip nan.
RECURSIVE ValuesSum(_, _, _)
ValuesSum(t, accounts, col) ==
    IF t = <<>> THEN Zero
    ELSE LET rest == ValuesSum(Tail(t), accounts, col)
         IN  IF Head(t).Account \in accounts THEN FAdd(Cell(Head(t), col), rest) ELSE rest

\* df.loc[df['Account'] == account, col] = value
SetWhere(t, account, col, value) ==
    [k \in 1..Len(t) |-> IF t[k].Account = account THEN SetCell(t[k], col, value) ELSE t[k]]

\* Some .values[0] of the function finds no row: IndexError.
Missing(t, accounts) == \E a \in accounts : Matches(t, a) = {}

\* any key of params contains 'replacement', whatever the case
\* str.contains('replacement', case=False) on a parameter name, over the
\* names the model's parameter sets use.
ContainsReplacement(key) ==
    key \in {"A75: Vessel Replacement Period (cycles)",
             "A75: Core Barrel Replacement Period (cycles)",
             "A75: Reflector Replacement Period (cycles)",
             "A75: Drum Replacement Period (cycles)",
             "A75: Integrated HX Replacement Period (cycles)",
             "Replacement Coolant Inventory"}

HasReplacement(p) == \E k \in DOMAIN p : ContainsReplacement(k)

\* The periods the itemized branch reads with params[..]; the HX period is
\* read with params.get(.., 0).
ReplacementPeriods ==
    {"A75: Vessel Replacement Period (cycles)", "A75: Core Barrel Replacement Period (cycles)",
     "A75: Reflector Replacement Period (cycles)", "A75: Drum Replacement Period (cycles)"}

\* One column of calculate_accounts_31_32_75_82_cost; crf82 is the value
\* _crf returned for the fuel account.  The periods are whole years.
IndirectColumn(t, p, col, crf82) ==
    LET tot_field_direct_cost == ColumnSum(t, {Acct(2100), Acct(2200), Acct(2300)}, col)
        t31 == SetWhere(t, Acct(3100), col,
                        FMul(p["indirect to direct field-related cost"], tot_field_direct_cost))
        t32 == SetWhere(t31, Acct(3200), col,
                        FMul(FirstValue(t31, Acct(2100), col),
                             FDiv(FirstValue(t31, Acct(3100), col), FirstValue(t31, Acct(2200), col))))
        refueling_period_yr ==
            FDiv(FAdd(FAdd(p["Fuel Lifetime"], p["Refueling Period"]),
                      p["Startup Duration after Refueling"]), Flt(365))
        cycles == <<p["A75: Vessel Replacement Period (cycles)"],
                    p["A75: Core Barrel Replacement Period (cycles)"],
                    One,
                    p["A75: Reflector Replacement Period (cycles)"],
                    p["A75: Drum Replacement Period (cycles)"],
                    IF "A75: Integrated HX Replacement Period (cycles)" \in DOMAIN p
                    THEN p["A75: Integrated HX Replacement Period (cycles)"] ELSE Zero>>
        A20_capital_cost ==
            <<ValuesSum(t32, {Acct(22112)}, col), ValuesSum(t32, {Acct(22113)}, col),
              ValuesSum(t32, {Acct(22133)}, col), ValuesSum(t32, {Acct(22131)}, col),
              ValuesSum(t32, {Acct(22120)}, col),
              ValuesSum(t32, {Acct(22210), Acct(22220), Acct(22230), Acct(22261)}, col)>>
        crf == crf_array(p["Interest Rate"],
                         [k \in 1..6 |-> FMul(refueling_period_yr, cycles[k])[1]])
        capital_sum == FAdd(FAdd(FAdd(A20_capital_cost[1], A20_capital_cost[2]),
                                 FAdd(A20_capital_cost[3], A20_capital_cost[4])),
                            FAdd(A20_capital_cost[5], A20_capital_cost[6]))
        RECURSIVE Replacement(_, _)
        Replacement(tt, k) ==
            IF k > 6 THEN tt
            ELSE Replacement(SetWhere(tt, Acct(75000 + 100 * k), col,
                                      FMul(A20_capital_cost[k], crf[k])), k + 1)
        t75 == IF HasReplacement(p)
               THEN SetWhere(Replacement(t32, 1), Acct(75900), col,
                             FMul(FSub(FirstValue(t32, Acct(2000), col), capital_sum),
                                  p["Maintenance to Direct Cost Ratio"]))
               ELSE SetWhere(t32, Acct(7500), col,
                             FMul(FirstValue(t32, Acct(2000), col),
                                  p["Maintenance to Direct Cost Ratio"]))
    IN  SetWhere(t75, Acct(8200), col, FMul(FirstValue(t75, Acct(2500), col), crf82))

\* calculate_accounts_31_32_75_82_cost: the tables it can leave, or a raise.
calculate_accounts_31_32_75_82_cost(t, p) ==
    IF Missing(t, {Acct(2100), Acct(2200), Acct(3100), Acct(2000), Acct(2500)}) THEN {Raised}
    ELSE IF HasReplacement(p) /\ ~(ReplacementPeriods \subseteq DOMAIN p) THEN {Raised}
    ELSE LET refueling_period_yr ==
                 FDiv(FAdd(FAdd(p["Fuel Lifetime"], p["Refueling Period"]),
                           p["Startup Duration after Refueling"]), Flt(365))
         IN  {IF crf82.raised THEN Raised
              ELSE Returned(IndirectColumn(IndirectColumn(t, p, "F", crf82.value[1]),
                                           p, "N", crf82.value[1]))
              : crf82 \in crf_scalar_outcomes(p["Interest Rate"], refueling_period_yr[1])}

\* The default calculate_decommissioning_cost writes into params.
DecommissioningParams(p) ==
    IF "A78: CAPEX to Decommissioning Cost Ratio" \in DOMAIN p THEN p
    ELSE MergeParams(p, [k \in {"A78: CAPEX to Decommissioning Cost Ratio"} |-> Frac(3, 20)])

\* -AR / (1 - pow(1 + AR, LP)) divides Python floats: a zero denominator raises.
DecommissioningRaises(p) ==
    FSub(One, PowF(FAdd(One, p["Annual Return"]), p["Levelization Period"])) = Zero

calculate_decommissioning_cost(t, p) ==
    LET fv_to_pv_of_annuity ==
            FDiv(FNeg(p["Annual Return"]),
                 FSub(One, PowF(FAdd(One, p["Annual Return"]), p["Levelization Period"])))
        Column(tt, col) ==
            SetWhere(tt, Acct(7800), col,
                     FMul(FMul(ColumnSum(tt, {Acct(1000), Acct(2000)}, col),
                               DecommissioningParams(p)["A78: CAPEX to Decommissioning Cost Ratio"]),
                          fv_to_pv_of_annuity))
    IN  Column(Column(t, "F"), "N")

\* 0.5 * B / C - 1 of calculate_interest_cost, with
\* B = 1 + exp(log(1 + rate) * months / 12) and
\* C = (log(1 + rate) * (months / 12) / 3.14) ** 2 + 1: exactly 0 for a rate
\* of 0 or a duration of 0, and the float rounded to two decimals at the
\* other rate and durations the model's parameters take.
InterestFactor(interest_rate, construction_duration) ==
    IF interest_rate = Zero \/ construction_duration = Zero THEN Zero
    ELSE IF interest_rate = One /\ construction_duration = Flt(12) THEN Frac(43, 100)
    ELSE IF interest_rate = One /\ construction_duration = Flt(24) THEN Frac(109, 100)
    ELSE NaN

calculate_interest_cost(p, OCC) ==
    FMul(FMul(p["Debt To Equity Ratio"], OCC),
         InterestFactor(p["Interest Rate"], p["Construction Duration"]))

\* df._append({'Account': name, 'Account Title': ...}, ignore_index=True)
AppendRows(t, names) == t \o [k \in 1..Len(names) |-> Row(Named(names[k]), NoLevel, "", NaN, NaN)]

\* Mutant: Account 62 is left as it was.
calculate_high_level_capital_costs_without_interest(t, p) ==
    LET power_kWe == FMul(Flt(1000), p["Power MWe"])
        Column(tt, col) ==
            LET occ_cost == ColumnSum(tt, {Acct(1000), Acct(2000), Acct(3000), Acct(4000),
                                           Acct(5000)}, col)
                occ_excl_fuel == FSub(occ_cost, FirstValue(tt, Acct(2500), col))
            IN  SetWhere(SetWhere(SetWhere(SetWhere(tt,
                    Named("OCC"), col, occ_cost),
                    Named("OCC per kW"), col, FDiv(occ_cost, power_kWe)),
                    Named("OCC excl. fuel"), col, occ_excl_fuel),
                    Named("OCC excl. fuel per kW"), col, FDiv(occ_excl_fuel, power_kWe))
    IN  Column(Column(AppendRows(t, <<"OCC", "OCC per kW", "OCC excl. fuel",
                                      "OCC excl. fuel per kW">>), "F"), "N")

calculate_high_level_capital_costs(t, p) ==
    LET power_kWe == FMul(Flt(1000), p["Power MWe"])
        Column(tt, col) ==
            LET occ_cost == ColumnSum(tt, {Acct(1000), Acct(2000), Acct(3000), Acct(4000),
                                           Acct(5000)}, col)
                occ_excl_fuel == FSub(occ_cost, FirstValue(tt, Acct(2500), col))
            IN  SetWhere(SetWhere(SetWhere(SetWhere(SetWhere(tt,
                    Named("OCC"), col, occ_cost),
                    Named("OCC per kW"), col, FDiv(occ_cost, power_kWe)),
                    Named("OCC excl. fuel"), col, occ_excl_fuel),
                    Named("OCC excl. fuel per kW"), col, FDiv(occ_excl_fuel, power_kWe)),
                    Acct(6200), col, calculate_interest_cost(p, occ_cost))
    IN  Column(Column(AppendRows(t, <<"OCC", "OCC per kW", "OCC excl. fuel",
                                      "OCC excl. fuel per kW">>), "F"), "N")

\* Mutant: the factor of the nearest credit level below, no interpolation.
ITC_reduction_factor_stepwise(itc_level) ==
    LET xs == <<Zero, Frac(3, 50), Frac(3, 10), Frac(2, 5), Frac(1, 2)>>
        ys == <<One, Frac(19, 20), Frac(73, 100), Frac(63, 100), Frac(53, 100)>>
    IN  IF FGe(xs[1], itc_level) THEN ys[1]
        ELSE ys[CHOOSE j \in 1..5 : FGe(itc_level, xs[j]) /\ (j = 5 \/ FGt(xs[j + 1], itc_level))]

\* np.interp over the credit levels 0, 0.06, 0.3, 0.4, 0.5 (clamped outside).
ITC_reduction_factor(itc_level) ==
    LET xs == <<Zero, Frac(3, 50), Frac(3, 10), Frac(2, 5), Frac(1, 2)>>
        ys == <<One, Frac(19, 20), Frac(73, 100), Frac(63, 100), Frac(53, 100)>>
    IN  IF FGe(xs[1], itc_level) THEN ys[1]
        ELSE IF FGe(itc_level, xs[5]) THEN ys[5]
        ELSE LET k == CHOOSE j \in 1..4 : FGe(itc_level, xs[j]) /\ FGt(xs[j + 1], itc_level)
             IN  FAdd(ys[k], FMul(FSub(itc_level, xs[k]),
                                  FDiv(FSub(ys[k + 1], ys[k]), FSub(xs[k + 1], xs[k]))))

\* Mutant: the adjusted TCI is the adjusted OCC alone, financing left out.
calculate_TCI_without_financing(t, p) ==
    LET power_kWe == FMul(Flt(1000), p["Power MWe"])
        itc == "ITC credit level" \in DOMAIN p
        rows == AppendRows(t, <<"TCI", "TCI per kW">>
                    \o (IF itc THEN <<"OCC (ITC-adjusted)", "OCC (ITC-adjusted) per kW",
                                     "TCI (ITC-adjusted)", "TCI (ITC-adjusted) per kW">>
                        ELSE <<>>))
        Column(tt, col) ==
            LET tci_cost == ColumnSum(tt, {Named("OCC"), Acct(6000)}, col)
                base == SetWhere(SetWhere(tt, Named("TCI"), col, tci_cost),
                                 Named("TCI per kW"), col, FDiv(tci_cost, power_kWe))
                factor == ITC_reduction_factor(p["ITC credit level"])
                OCC_after_ITC == FMul(FirstValue(base, Named("OCC"), col), factor)
                tci_cost_with_itc == OCC_after_ITC
            IN  IF itc
                THEN SetWhere(SetWhere(SetWhere(SetWhere(base,
                        Named("OCC (ITC-adjusted)"), col, OCC_after_ITC),
                        Named("OCC (ITC-adjusted) per kW"), col, FDiv(OCC_after_ITC, power_kWe)),
                        Named("TCI (ITC-adjusted)"), col, tci_cost_with_itc),
                        Named("TCI (ITC-adjusted) per kW"), col, FDiv(tci_cost_with_itc, power_kWe))
                ELSE base
    IN  Column(Column(rows, "F"), "N")

calculate_TCI(t, p) ==
    LET power_kWe == FMul(Flt(1000), p["Power MWe"])
        itc == "ITC credit level" \in DOMAIN p
        rows == AppendRows(t, <<"TCI", "TCI per kW">>
                    \o (IF itc THEN <<"OCC (ITC-adjusted)", "OCC (ITC-adjusted) per kW",
                                     "TCI (ITC-adjusted)", "TCI (ITC-adjusted) per kW">>
                        ELSE <<>>))
        Column(tt, col) ==
            LET tci_cost == ColumnSum(tt, {Named("OCC"), Acct(6000)}, col)
                base == SetWhere(SetWhere(tt, Named("TCI"), col, tci_cost),
                                 Named("TCI per kW"), col, FDiv(tci_cost, power_kWe))
                OCC_after_ITC == FMul(FirstValue(base, Named("OCC"), col),
                                      ITC_reduction_factor(p["ITC credit level"]))
                tci_cost_with_itc == FAdd(FirstValue(base, Acct(6000), col), OCC_after_ITC)
            IN  IF itc
                THEN SetWhere(SetWhere(SetWhere(SetWhere(base,
                        Named("OCC (ITC-adjusted)"), col, OCC_after_ITC),
                        Named("OCC (ITC-adjusted) per kW"), col, FDiv(OCC_after_ITC, power_kWe)),
                        Named("TCI (ITC-adjusted)"), col, tci_cost_with_itc),
                        Named("TCI (ITC-adjusted) per kW"), col, FDiv(tci_cost_with_itc, power_kWe))
                ELSE base
    IN  Column(Column(rows, "F"), "N")

(***************************************************************************)
(* energy_cost_levelized                                                   *)
(***************************************************************************)
\* Mutant: the last year of the range is left out.
RECURSIVE Discounted_without_last_year(_, _, _, _)
Discounted_without_last_year(amount, rate, first, last) ==
    IF first >= last THEN Zero
    ELSE FAdd(FDiv(amount, FPow(FAdd(One, rate), first)),
              Discounted_without_last_year(amount, rate, first + 1, last))

\* The sum over the years i = first..last of amount / (1 + rate) ** i.
RECURSIVE Discounted(_, _, _, _)
Discounted(amount, rate, first, last) ==
    IF first > last THEN Zero
    ELSE FAdd(FDiv(amount, FPow(FAdd(One, rate), first)),
              Discounted(amount, rate, first + 1, last))

\* params.setdefault('Tax Rate', 0.21)
LevelizedParams(p) ==
    IF "Tax Rate" \in DOMAIN p THEN p ELSE MergeParams(p, [k \in {"Tax Rate"} |-> Frac(21, 100)])

\* Mutant: the call goes on when both credits are configured.
LevelizedRaises_without_credit_assert(t, p) ==
    LET years == p["Levelization Period"][1]
        elec_gen == FMul(FMul(p["Power MWe"], p["Capacity Factor"]), Flt(8760))
    IN  \/ Missing(t, {Named("TCI"), Acct(7000), Acct(8000)})
        \/ /\ "PTC credit value" \in DOMAIN p
           /\ \/ "PTC credit period" \notin DOMAIN p
              \/ LevelizedParams(p)["Tax Rate"] = One /\ years >= 1
                    /\ FGe(p["PTC credit period"], One)
              \/ Discounted(elec_gen, p["Interest Rate"], 1, years) = Zero
        \/ "ITC credit level" \in DOMAIN p /\ Missing(t, {Named("TCI (ITC-adjusted)")})

\* The asserts and the divisions of Python floats that end the call: both
\* credits present, a PTC without its period, a tax rate of 1, no
\* discounted production to divide the credit by, a row read by .values[0]
\* that is missing.
LevelizedRaises(t, p) ==
    LET years == p["Levelization Period"][1]
        elec_gen == FMul(FMul(p["Power MWe"], p["Capacity Factor"]), Flt(8760))
    IN  \/ "ITC credit level" \in DOMAIN p /\ "PTC credit value" \in DOMAIN p
        \/ Missing(t, {Named("TCI"), Acct(7000), Acct(8000)})
        \/ /\ "PTC credit value" \in DOMAIN p
           /\ \/ "PTC credit period" \notin DOMAIN p
              \/ LevelizedParams(p)["Tax Rate"] = One /\ years >= 1
                    /\ FGe(p["PTC credit period"], One)
              \/ Discounted(elec_gen, p["Interest Rate"], 1, years) = Zero
        \/ "ITC credit level" \in DOMAIN p /\ Missing(t, {Named("TCI (ITC-adjusted)")})

\* Mutant: the credit accrues in every year of the plant's life.
PtcYears_whole_lifetime(p) == p["Levelization Period"][1]

\* The years i of range(1 + plant_lifetime_years) with i > 0 and not
\* i > params['PTC credit period']: 1..PtcYears.
PtcYears(p) == Min(p["Levelization Period"][1], IntOf(p["PTC credit period"])[1])

energy_cost_levelized(p0, t) ==
    LET p == LevelizedParams(p0)
        ptc == "PTC credit value" \in DOMAIN p
        itc == "ITC credit level" \in DOMAIN p
        years == p["Levelization Period"][1]
        rate == p["Interest Rate"]
        elec_gen == FMul(FMul(p["Power MWe"], p["Capacity Factor"]), Flt(8760))
        sum_elec == Discounted(elec_gen, rate, 1, years)
        rows == AppendRows(t, <<"AC", "AC per MWh", "LCOE">>
                    \o (IF ptc THEN <<"LCOE with PTC">> ELSE <<>>)
                    \o (IF itc THEN <<"LCOE (ITC-adjusted)">> ELSE <<>>))
        \* the try / except around the two bonuses: both, or none
        bonus_multiplier ==
            IF {"domestic_content_bonus", "energy_community_bonus"} \subseteq DOMAIN p
            THEN FAdd(FAdd(One, p["domestic_content_bonus"]), p["energy_community_bonus"])
            ELSE One
        Lcoe(cap_cost, ann_cost) ==
            FDiv(FAdd(cap_cost, Discounted(ann_cost, rate, 1, years)), sum_elec)
        Column(tt, col) ==
            LET ann_cost == FAdd(FirstValue(tt, Acct(7000), col), FirstValue(tt, Acct(8000), col))
                lcoe == Lcoe(FirstValue(tt, Named("TCI"), col), ann_cost)
                base == SetWhere(SetWhere(SetWhere(tt,
                            Named("AC"), col, ann_cost),
                            Named("AC per MWh"), col,
                                FDiv(ann_cost, p["Annual Electricity Production"])),
                            Named("LCOE"), col, lcoe)
                credit_years == PtcYears(p)
                ptc_gen == FDiv(FMul(elec_gen, FMul(p["PTC credit value"], bonus_multiplier)),
                                FSub(One, p["Tax Rate"]))
                estimated_ptc == FDiv(Discounted(ptc_gen, rate, 1, credit_years), sum_elec)
                with_ptc == IF ptc
                            THEN SetWhere(base, Named("LCOE with PTC"), col,
                                          FSub(lcoe, estimated_ptc))
                            ELSE base
            IN  IF itc
                THEN SetWhere(with_ptc, Named("LCOE (ITC-adjusted)"), col,
                              Lcoe(FirstValue(tt, Named("TCI (ITC-adjusted)"), col), ann_cost))
                ELSE with_ptc
    IN  Column(Column(rows, "F"), "N")

(***************************************************************************)
(* Spec: bottom_up_cost_estimate, one action for each call it makes, from  *)
(* the tax-credit validation to the table each sample appends to          *)
(* COA_list.  pc names the call that returned last.                        *)
(***************************************************************************)
MaxSamples == 2

\* if 'ITC credit level' in params.keys() and 'PTC credit value' in params.keys(): raise
\* Mutant: the validation lets every parameter set through.
validate_nothing(p) == FALSE
validate_tax_credit_params(p) == {"ITC credit level", "PTC credit value"} \subseteq DOMAIN p

\* reactor_operation: the operation parameters the registry lists as
\* calculated.
reactor_operation(p) ==
    MergeParams(p, ("Capacity Factor" :> One)
                   @@ ("Annual Electricity Production" :> FMul(Flt(8760), p["Power MWe"])))

\* The 'Cost Database' sheet of the model's workbook: the accounts the
\* pipeline reads by number, with their parents, as one tree per group.
CatalogRows ==
    LET parent(i, a, l) ==
            CatRow(i, Acct(a), l, EmptyCell, NaN, NaN, EmptyCell, NaN, NaN, EmptyCell)
        leaf(i, a, l, tag, fixed) ==
            [CatRow(i, Acct(a), l, tag, Flt(fixed), NaN, EmptyCell, NaN, NaN, "standard")
                EXCEPT !.DollarYear = Flt(2023)]
    IN  <<parent(0, 1000, 0),
          leaf(1, 1100, 1, "Licensing Learning", 40),
          parent(2, 2000, 0),
          [leaf(3, 2100, 1, "Onsite Learning", 30)
              EXCEPT !.DollarYear = Flt(2020), !.Type = "CPI", !.FixedDist = "Uniform",
                     !.FixedLo = Flt(15), !.FixedHi = Flt(45)],
          parent(4, 2200, 1),
          [CatRow(5, Acct(22112), 2, "Factory Primary Structure", NaN, Flt(10), "Power MWe",
                  NaN, One, "standard")
              EXCEPT !.DollarYear = Flt(2023)],
          [leaf(6, 22210, 2, "Factory Other", 20)
              EXCEPT !.OptVar = "Reactor", !.OptVal = "GCMR"],
          leaf(7, 22600, 2, EmptyCell, 8),
          parent(8, 2300, 1),
          leaf(9, 23200, 2, "Non-nuclear off-the-shelf", 30),
          leaf(10, 2500, 1, "No Learning", 50),
          parent(11, 3000, 0), parent(12, 3100, 1), parent(13, 3200, 1),
          parent(14, 4000, 0),
          leaf(15, 5000, 0, "No Learning", 5),
          parent(16, 6000, 0), parent(17, 6100, 1), parent(18, 6200, 1),
          parent(19, 7000, 0), parent(20, 7500, 1), parent(21, 7800, 1),
          parent(22, 8000, 0), parent(23, 8200, 1)>>

\* The 'Inflation Adjustment' sheet: the index of each year, by cost type.
InflationSheet == (2020 :> [CPI |-> Flt(2)]) @@ (2023 :> [CPI |-> One])

\* The design parameters every run of the model has.
BaseParams ==
    ("Escalation Year" :> Flt(2023)) @@ ("Power MWe" :> Flt(2))
    @@ ("No Learning" :> Zero) @@ ("Licensing Learning" :> Frac(1, 2))
    @@ ("Factory Primary Structure" :> Frac(1, 2)) @@ ("Factory Drums" :> Frac(1, 2))
    @@ ("Factory Other" :> Frac(3, 4)) @@ ("Factory Be" :> Frac(1, 2))
    @@ ("Factory BeO" :> Frac(1, 2)) @@ ("Non-nuclear off-the-shelf" :> Zero)
    @@ ("Onsite Learning" :> Frac(1, 2))
    @@ ("indirect to direct field-related cost" :> Frac(1, 2))
    @@ ("Fuel Lifetime" :> Flt(700)) @@ ("Refueling Period" :> Flt(20))
    @@ ("Startup Duration after Refueling" :> Flt(10))
    @@ ("Interest Rate" :> One) @@ ("Maintenance to Direct Cost Ratio" :> Frac(1, 10))
    @@ ("Annual Return" :> One) @@ ("Levelization Period" :> Flt(2))
    @@ ("Debt To Equity Ratio" :> Frac(1, 2)) @@ ("Construction Duration" :> Flt(12))

\* What a run may add: a tax credit or both, the redundancy counts, the
\* NOAK unit number.
NoParams == [k \in {} |-> Zero]
PtcCredit ==
    ("PTC credit value" :> Frac(1, 100)) @@ ("PTC credit period" :> Flt(2))
    @@ ("Tax Rate" :> Zero)
CreditParams ==
    {NoParams, "ITC credit level" :> Frac(3, 10), PtcCredit,
     ("ITC credit level" :> Frac(3, 10)) @@ PtcCredit}
RedundancyParams ==
    {NoParams, ("Primary Loop Count" :> Flt(2)) @@ ("BoP Count" :> Flt(3))
               @@ ("Primary Loop Purification" :> One)}
UnitParams == {NoParams, "NOAK Unit Number" :> Flt(4)}

Init ==
    /\ \E n \in 1..MaxSamples, reactor \in {"LTMR", "GCMR"},
          credit \in CreditParams, redundancy \in RedundancyParams, units \in UnitParams :
          params = (("Number of Samples" :> Flt(n)) @@ ("Reactor" :> reactor)
                    @@ credit @@ redundancy @@ units @@ BaseParams)
    /\ \E economics \in {NoParams, "ITC credit level" :> Frac(3, 10)} :
          catalog = [rows |-> CatalogRows, inflation |-> InflationSheet,
                     economics |-> economics, columns |-> {"Account", "Account Name"}]
    /\ arg = [params |-> params]
    /\ pc = "start"
    /\ escalated_cost = <<>> /\ df = <<>> /\ before = <<>> /\ COA_list = <<>>
    /\ option = "" /\ sample = 0 /\ ret = Unused

\* validate_tax_credit_params(params)
Validate ==
    /\ pc = "start"
    /\ pc' = IF validate_tax_credit_params(params) THEN "raised" ELSE "validated"
    /\ UNCHANGED <<params, catalog, df, before, option, sample, COA_list, escalated_cost, arg, ret>>

\* escalated_cost = escalate_cost_database(cost_database_filename, params['Escalation Year'], params)
Escalate ==
    /\ pc = "validated"
    /\ LET out == escalate_cost_database(catalog, params["Escalation Year"], params)
       IN  IF out.raised
           THEN pc' = "raised" /\ UNCHANGED <<escalated_cost, params>>
           ELSE pc' = "escalated" /\ escalated_cost' = out.value.df /\ params' = out.value.params
    /\ UNCHANGED <<catalog, df, before, option, sample, COA_list, arg, ret>>

\* escalated_cost_cleaned = remove_irrelevant_account(escalated_cost, params)
Remove ==
    /\ pc = "escalated"
    /\ IF RemoveRaises(escalated_cost, params, catalog.columns)
       THEN pc' = "raised" /\ UNCHANGED escalated_cost
       ELSE /\ pc' = "cleaned"
            /\ escalated_cost' = remove_irrelevant_account(escalated_cost, params, catalog.columns)
    /\ UNCHANGED <<params, catalog, df, before, option, sample, COA_list, arg, ret>>

\* reactor_operation(params)
Operate ==
    /\ pc = "cleaned"
    /\ params' = reactor_operation(params)
    /\ pc' = "operated"
    /\ UNCHANGED <<catalog, df, before, option, sample, COA_list, escalated_cost, arg, ret>>

\* Mutant: one table shared by the samples; scale_cost writes the FOAK cost
\* of the evaluated rows into the table the sample before left.
Scale_on_shared_table ==
    /\ pc \in {"operated", "levelized"}
    /\ sample < params["Number of Samples"][1]
    /\ sample' = sample + 1
    /\ before' = df
    /\ \E outcome \in scale_cost(escalated_cost, params) :
          IF outcome.raised
          THEN pc' = "raised" /\ df' = df
          ELSE /\ pc' = "scaled"
               /\ df' = IF df = <<>> THEN outcome.value
                        ELSE [k \in 1..Len(df) |->
                                IF k <= Len(outcome.value) /\ NotNa(outcome.value[k].F)
                                THEN [df[k] EXCEPT !.F = outcome.value[k].F] ELSE df[k]]
    /\ UNCHANGED <<params, catalog, option, COA_list, escalated_cost, arg, ret>>

\* for i in range(params['Number of Samples']): scaled_cost = scale_cost(escalated_cost_cleaned, params)
Scale ==
    /\ pc \in {"operated", "levelized"}
    /\ sample < params["Number of Samples"][1]
    /\ sample' = sample + 1
    /\ before' = df
    /\ \E outcome \in scale_cost(escalated_cost, params) :
          IF outcome.raised
          THEN pc' = "raised" /\ df' = df
          ELSE pc' = "scaled" /\ df' = outcome.value
    /\ UNCHANGED <<params, catalog, option, COA_list, escalated_cost, arg, ret>>

\* scaled_cost = scale_redundant_BOP_and_primary_loop(scaled_cost, params)
Redundant ==
    /\ pc = "scaled"
    /\ before' = df
    /\ df' = scale_redundant_BOP_and_primary_loop(df, params)
    /\ pc' = "redundant"
    /\ UNCHANGED <<params, catalog, option, sample, COA_list, escalated_cost, arg, ret>>

\* NOAK_COA = FOAK_to_NOAK(scaled_cost, params)
Learn ==
    /\ pc = "redundant"
    /\ before' = df
    /\ params' = LearningParams(params)
    /\ df' = FOAK_to_NOAK(df, params')
    /\ pc' = "learned"
    /\ UNCHANGED <<catalog, option, sample, COA_list, escalated_cost, arg, ret>>

\* update_high_level_costs(.., group, i), called after the step `from`.
Rollup(from, group, to) ==
    /\ pc = from
    /\ before' = df
    /\ option' = group
    /\ IF RollupRaises(df, group)
       THEN pc' = "raised" /\ df' = df
       ELSE pc' = to /\ df' = update_high_level_costs(df, group)
    /\ UNCHANGED <<params, catalog, sample, COA_list, escalated_cost, arg, ret>>

\* updated_cost_with_indirect_cost = calculate_accounts_31_32_75_82_cost(updated_cost, params)
Indirect ==
    /\ pc = "base"
    /\ before' = df
    /\ \E outcome \in calculate_accounts_31_32_75_82_cost(df, params) :
          IF outcome.raised
          THEN pc' = "raised" /\ df' = df
          ELSE pc' = "indirect" /\ df' = outcome.value
    /\ UNCHANGED <<params, catalog, option, sample, COA_list, escalated_cost, arg, ret>>

\* cost_with_decommissioning = calculate_decommissioning_cost(updated_cost_with_indirect_cost, params)
Decommission ==
    /\ pc = "indirect"
    /\ before' = df
    /\ params' = DecommissioningParams(params)
    /\ IF DecommissioningRaises(params)
       THEN pc' = "raised" /\ df' = df
       ELSE pc' = "decommissioned" /\ df' = calculate_decommissioning_cost(df, params)
    /\ UNCHANGED <<catalog, option, sample, COA_list, escalated_cost, arg, ret>>

\* high_Level_capital_cost = calculate_high_level_capital_costs(updated_accounts_10_40, params)
Capital ==
    /\ pc = "other"
    /\ before' = df
    /\ IF Missing(df, {Acct(2500)})
       THEN pc' = "raised" /\ df' = df
       ELSE pc' = "capital" /\ df' = calculate_high_level_capital_costs(df, params)
    /\ UNCHANGED <<params, catalog, option, sample, COA_list, escalated_cost, arg, ret>>

\* TCI = calculate_TCI(updated_accounts_10_60, params)
TotalCapitalInvestment ==
    /\ pc = "finance"
    /\ before' = df
    /\ IF "ITC credit level" \in DOMAIN params /\ Missing(df, {Named("OCC"), Acct(6000)})
       THEN pc' = "raised" /\ df' = df
       ELSE pc' = "tci" /\ df' = calculate_TCI(df, params)
    /\ UNCHANGED <<params, catalog, option, sample, COA_list, escalated_cost, arg, ret>>

\* Mutant: the sample's table is computed and not appended to COA_list.
Levelize_without_append ==
    /\ pc = "annual"
    /\ before' = df
    /\ IF LevelizedRaises(df, params)
       THEN pc' = "raised" /\ UNCHANGED <<df, params, COA_list>>
       ELSE /\ pc' = "levelized"
            /\ params' = LevelizedParams(params)
            /\ df' = energy_cost_levelized(params, df)
            /\ COA_list' = COA_list
    /\ UNCHANGED <<catalog, option, sample, escalated_cost, arg, ret>>

\* Final_COA = energy_cost_levelized(params, updated_accounts_70_80), cut
\* to its account and cost columns and appended to COA_list.
Levelize ==
    /\ pc = "annual"
    /\ before' = df
    /\ IF LevelizedRaises(df, params)
       THEN pc' = "raised" /\ UNCHANGED <<df, params, COA_list>>
       ELSE /\ pc' = "levelized"
            /\ params' = LevelizedParams(params)
            /\ df' = energy_cost_levelized(params, df)
            /\ COA_list' = Append(COA_list,
                    [k \in 1..Len(df') |-> [Account |-> df'[k].Account, F |-> df'[k].F, N |-> df'[k].N]])
    /\ UNCHANGED <<catalog, option, sample, escalated_cost, arg, ret>>

(***************************************************************************)
(* The aggregation after the sampling loop: mean and standard deviation    *)
(* of each cell over the samples, grouped by row index.                    *)
(***************************************************************************)
RECURSIVE SumOf(_)
SumOf(values) == IF values = <<>> THEN Zero ELSE FAdd(Head(values), SumOf(Tail(values)))

\* The cells of one group that are not NaN (pandas skips NaN).
RECURSIVE Present(_)
Present(values) ==
    IF values = <<>> THEN <<>>
    ELSE IF IsNaN(Head(values)) THEN Present(Tail(values))
    ELSE <<Head(values)>> \o Present(Tail(values))

\* groupby(..).mean(): NaN for a group with no value.
GroupMean(values) ==
    LET present == Present(values)
    IN  IF present = <<>> THEN NaN ELSE FDiv(SumOf(present), Flt(Len(present)))

\* A standard deviation is kept as scale * sqrt(radicand), so that no cost
\* is squared: 0 is written with scale 0, NaN with scale NaN.
StdOf(scale, radicand) == [scale |-> scale, radicand |-> radicand]

\* sqrt(sum((x - mean)^2) / (count - ddof)) over the cells that are not NaN,
\* with the first non-zero deviation from the mean taken out of the root.
Deviation(values, count_less_ddof) ==
    LET present == Present(values)
        mean == GroupMean(values)
        deviations == [k \in 1..Len(present) |-> FSub(present[k], mean)]
        nonzero == SelectSeq(deviations, LAMBDA d : d # Zero)
    IN  IF count_less_ddof <= 0 \/ \E k \in 1..Len(deviations) : ~IsFinite(deviations[k])
        THEN StdOf(NaN, One)
        ELSE IF nonzero = <<>> THEN StdOf(Zero, One)
        ELSE LET scale == IF FGt(Zero, nonzero[1]) THEN FNeg(nonzero[1]) ELSE nonzero[1]
                 ratios == [k \in 1..Len(deviations) |-> FDiv(deviations[k], scale)]
             IN  StdOf(scale, FDiv(SumOf([k \in 1..Len(ratios) |-> FMul(ratios[k], ratios[k])]),
                                   Flt(count_less_ddof)))

\* Mutant: the sample standard deviation (ddof = 1) whatever the number of
\* samples.
GroupStd_always_sample(values, ddof) == Deviation(values, Len(Present(values)) - 1)

\* groupby(..).std(ddof): NaN when count - ddof is not positive.
GroupStd(values, ddof) == Deviation(values, Len(Present(values)) - ddof)

\* pd.concat(COA_list) grouped by concatenated_df.index: the samples that
\* have a row of index k, in order.
GroupOf(list, k) ==
    LET having == SelectSeq(list, LAMBDA table : k <= Len(table))
    IN  [j \in 1..Len(having) |-> having[j][k]]

\* Lines 307-322 of bottom_up_cost_estimate: one row per index with the
\* first Account of the group, the means, and the 'Cost std' columns
\* (Fstd, Nstd).
aggregate(list, p) ==
    LET ddof == IF FGt(p["Number of Samples"], One) THEN 1 ELSE 0
        longest == CHOOSE n \in {Len(list[j]) : j \in 1..Len(list)} :
                       \A j \in 1..Len(list) : Len(list[j]) <= n
    IN  [k \in 1..longest |->
            LET group == GroupOf(list, k)
                foak == [j \in 1..Len(group) |-> group[j].F]
                noak == [j \in 1..Len(group) |-> group[j].N]
            IN  [Account |-> group[1].Account,
                 F |-> GroupMean(foak), N |-> GroupMean(noak),
                 Fstd |-> GroupStd(foak, ddof), Nstd |-> GroupStd(noak, ddof)]]

\* concatenated_df = pd.concat(COA_list) .. return reordered_df
Aggregate ==
    /\ pc = "levelized"
    /\ sample = params["Number of Samples"][1]
    /\ pc' = "returned"
    /\ ret' = aggregate(COA_list, params)
    /\ UNCHANGED <<params, catalog, df, before, option, sample, COA_list, escalated_cost, arg>>

Next ==
    \/ Validate \/ Escalate \/ Remove \/ Operate
    \/ Scale \/ Redundant \/ Learn
    \/ Rollup("learned", "base", "base")
    \/ Indirect \/ Decommission
    \/ Rollup("decommissioned", "other", "other")
    \/ Capital
    \/ Rollup("capital", "finance", "finance")
    \/ TotalCapitalInvestment
    \/ Rollup("tci", "annual", "annual")
    \/ Levelize
    \/ Aggregate

Spec == Init /\ [][Next]_vars

\* A key is configured for the run when it is in the parameters handed to
\* bottom_up_cost_estimate or in the Economics Parameters sheet of the cost
\* database, which escalate_cost_database merges into them.
Configured(key) == key \in DOMAIN arg.params \cup DOMAIN catalog.economics

\* C4: when both 'ITC credit level' and 'PTC credit value' are configured
\* for the run, it raises before anything is escalated, scaled or computed,
\* and no cost table exists.
C4_BothCreditsRaiseBeforeAnyCost ==
    (Configured("ITC credit level") /\ Configured("PTC credit value")) =>
        /\ pc \in {"start", "raised"}
        /\ escalated_cost = <<>> /\ df = <<>> /\ COA_list = <<>>

\* 'PTC credit value' handed in, 'ITC credit level' only in the sheet: the
\* validation passed, the database was escalated and the first sample was
\* computed up to its TCI and annual rollup before energy_cost_levelized
\* raised.
C4_Witness ==
    /\ pc = "raised"
    /\ "PTC credit value" \in DOMAIN arg.params
    /\ "ITC credit level" \in DOMAIN catalog.economics \ DOMAIN arg.params
    /\ escalated_cost # <<>> /\ sample = 1
    /\ ~Missing(df, {Named("TCI"), Named("TCI (ITC-adjusted)")})
    /\ LevelizedRaises(df, params)

\* The factor the redundancy scaling applies to an account of the catalog:
\* the loop count on 222.x, the BoP count on 232.x and 213.1x, the
\* purification flag on 226, each only when configured.
RedundancyFactor(account) ==
    CASE account = Acct(22210) /\ "Primary Loop Count" \in DOMAIN params ->
             params["Primary Loop Count"]
      [] account = Acct(23200) /\ "BoP Count" \in DOMAIN params -> params["BoP Count"]
      [] account = Acct(22600) /\ "Primary Loop Purification" \in DOMAIN params ->
             params["Primary Loop Purification"]
      [] OTHER -> One

\* (1 - rate)^log2(min(100, units)) of a tag: 2 x NOAK Unit Number units for
\* 'Onsite Learning', NOAK Unit Number (10 by default) for the others.
TagMultiplier(tag) ==
    LET number == IF "NOAK Unit Number" \in DOMAIN params
                  THEN params["NOAK Unit Number"][1] ELSE 10
    IN  learning_rate_multiplier(params[tag],
                                 IF tag = "Onsite Learning" THEN 2 * number ELSE number)

\* C9: the redundancy scaling multiplies the scaled FOAK cost of each row by
\* its loop / BoP / purification factor and runs right after scale_cost;
\* FOAK_to_NOAK runs right after it and gives every row with a recognized
\* tag and a FOAK cost NOAK = tag multiplier x that FOAK cost, leaving the
\* FOAK cost as it is; the onsite multiplier uses 2 x NOAK Unit Number.
C9_NoakIsMultiplierTimesRedundantFoak ==
    [][/\ (pc' = "redundant" /\ pc # "redundant") =>
              /\ pc = "scaled"
              /\ \A i \in 1..Len(df) :
                    df'[i].F = FMul(df[i].F, RedundancyFactor(df[i].Account))
       /\ (pc' = "learned" /\ pc # "learned") =>
              /\ pc = "redundant"
              /\ \A i \in 1..Len(df) :
                    /\ df'[i].F = df[i].F
                    /\ (df[i].Tag \in LearningTypes \cup {"Onsite Learning"} /\ NotNa(df[i].F))
                           => df'[i].N = FMul(TagMultiplier(df[i].Tag), df[i].F)]_vars

\* After FOAK_to_NOAK: the primary-loop row carries the loop count in both
\* columns, and the onsite row has the multiplier of twice the units.
C9_Witness ==
    /\ pc = "learned"
    /\ "Primary Loop Count" \in DOMAIN params
    /\ \E i \in 1..Len(df) :
          /\ df[i].Account = Acct(22210)
          /\ df[i].F = Flt(40)
          /\ df[i].N = FMul(Frac(1, 100), Flt(40))
    /\ \E j \in 1..Len(df) :
          /\ df[j].Tag = "Onsite Learning"
          /\ df[j].N = FMul(Frac(1, 20), df[j].F) /\ df[j].F # Zero

\* The cell of the first row of an account.
CellOf(account, col) == FirstValue(df, account, col)

\* C10: in both columns OCC is the sum of accounts 10, 20, 30, 40 and 50 as
\* the base and other rollups left them, OCC excl. fuel is OCC - Account 25,
\* Account 62 is the interest on that OCC, Account 60 is rolled up from its
\* children with that Account 62, and TCI is OCC + Account 60.
C10_OccAndTciSums ==
    \A col \in {"F", "N"} :
        /\ pc \in {"capital", "finance", "tci", "annual", "levelized"} =>
              /\ CellOf(Named("OCC"), col) =
                    FAdd(FAdd(FAdd(CellOf(Acct(1000), col), CellOf(Acct(2000), col)),
                              FAdd(CellOf(Acct(3000), col), CellOf(Acct(4000), col))),
                         CellOf(Acct(5000), col))
              /\ IsFinite(CellOf(Named("OCC"), col))
              /\ CellOf(Named("OCC excl. fuel"), col) =
                    FSub(CellOf(Named("OCC"), col), CellOf(Acct(2500), col))
              /\ CellOf(Acct(6200), col) =
                    calculate_interest_cost(params, CellOf(Named("OCC"), col))
        /\ pc = "capital" =>
              \A a \in {Acct(1000), Acct(2000), Acct(3000), Acct(4000), Acct(5000)} :
                  CellOf(a, col) = FirstValue(before, a, col)
        /\ pc \in {"finance", "tci", "annual", "levelized"} =>
              CellOf(Acct(6000), col) = FAdd(CellOf(Acct(6100), col), CellOf(Acct(6200), col))
        /\ pc \in {"tci", "annual", "levelized"} =>
              CellOf(Named("TCI"), col) =
                  FAdd(CellOf(Named("OCC"), col), CellOf(Acct(6000), col))

\* The second sample, drawn with a fixed cost other than the nominal one,
\* has its own OCC, interest and TCI.
C10_Witness ==
    /\ pc = "tci" /\ sample = 2
    /\ CellOf(Acct(2100), "F") # Flt(60)
    /\ CellOf(Acct(6200), "F") # Zero
    /\ CellOf(Acct(6200), "F") # CellOf(Acct(6200), "N")
    /\ CellOf(Named("TCI"), "F") = FAdd(CellOf(Named("OCC"), "F"), CellOf(Acct(6000), "F"))

\* C11: with an ITC credit level in the parameters, in both cost columns
\* 'OCC (ITC-adjusted)' = OCC x reduction factor and 'TCI (ITC-adjusted)' =
\* 'OCC (ITC-adjusted)' + Account 60, the Account 60 of the baseline
\* TCI = OCC + Account 60; calculate_TCI leaves OCC and Account 60 as they
\* were, so TCI - TCI (ITC-adjusted) = (1 - factor) x OCC.
C11_ItcReducesOccOnly ==
    (pc \in {"tci", "annual", "levelized"} /\ "ITC credit level" \in DOMAIN params) =>
        \A col \in {"F", "N"} :
            LET factor == ITC_reduction_factor(params["ITC credit level"])
                OCC == CellOf(Named("OCC"), col)
                A60 == CellOf(Acct(6000), col)
                TCI == CellOf(Named("TCI"), col)
            IN  /\ CellOf(Named("OCC (ITC-adjusted)"), col) = FMul(OCC, factor)
                /\ CellOf(Named("TCI (ITC-adjusted)"), col) =
                      FAdd(CellOf(Named("OCC (ITC-adjusted)"), col), A60)
                /\ TCI = FAdd(OCC, A60)
                /\ FSub(TCI, CellOf(Named("TCI (ITC-adjusted)"), col)) =
                      FMul(FSub(One, factor), OCC)
                /\ pc = "tci" =>
                      /\ OCC = FirstValue(before, Named("OCC"), col)
                      /\ A60 = FirstValue(before, Acct(6000), col)

\* calculate_TCI has returned with a credit level of 0.3: the adjusted TCI is
\* below the baseline, and financing is not zero.
C11_Witness ==
    /\ pc = "tci" /\ "ITC credit level" \in DOMAIN params
    /\ CellOf(Acct(6000), "F") # Zero
    /\ FGt(CellOf(Named("TCI"), "F"), CellOf(Named("TCI (ITC-adjusted)"), "F"))
    /\ CellOf(Named("OCC (ITC-adjusted)"), "N") = FMul(CellOf(Named("OCC"), "N"), Frac(73, 100))

(***************************************************************************)
(* SpecItc: ITC_reduction_factor on credit levels in hundredths, from      *)
(* below 0 to above 0.5.                                                   *)
(***************************************************************************)
MaxItcPercent == 110
ItcLevels == {Frac(k - 10, 100) : k \in 0..MaxItcPercent}

InitItc ==
    /\ arg \in {[itc_level |-> level] : level \in ItcLevels}
    /\ ret = Unused
    /\ pc = "call"
    /\ params = Unused /\ catalog = Unused /\ df = Unused /\ before = Unused
    /\ option = "" /\ sample = 0 /\ COA_list = Unused /\ escalated_cost = Unused

\* ITC_cost_reduction_factor = ITC_reduction_factor(params['ITC credit level'])
ItcCall ==
    /\ pc = "call"
    /\ ret' = ITC_reduction_factor(arg.itc_level)
    /\ pc' = "returned"
    /\ UNCHANGED <<params, catalog, df, before, option, sample, COA_list, escalated_cost, arg>>

NextItc == ItcCall

SpecItc == InitItc /\ [][NextItc]_vars

\* C12: ITC_reduction_factor returns exactly 1.0, 0.95, 0.73, 0.63 and 0.53
\* at the credit levels 0, 0.06, 0.30, 0.40 and 0.50, and at 0.20 the value
\* on the straight line from (0.06, 0.95) to (0.30, 0.73), which is
\* 0.95 - 0.14 x 0.22 / 0.24 = 493/600.
C12_ItcFactorAtKnotsAndBetween ==
    pc = "returned" =>
        /\ arg.itc_level = Zero => ret = One
        /\ arg.itc_level = Frac(6, 100) => ret = Frac(95, 100)
        /\ arg.itc_level = Frac(30, 100) => ret = Frac(73, 100)
        /\ arg.itc_level = Frac(40, 100) => ret = Frac(63, 100)
        /\ arg.itc_level = Frac(50, 100) => ret = Frac(53, 100)
        /\ arg.itc_level = Frac(20, 100) =>
              /\ ret = Frac(493, 600)
              /\ FMul(FSub(ret, Frac(95, 100)), FSub(Frac(30, 100), Frac(6, 100))) =
                 FMul(FSub(Frac(73, 100), Frac(95, 100)), FSub(arg.itc_level, Frac(6, 100)))

\* The call at 0.20 has returned the interpolated factor.
C12_Witness ==
    pc = "returned" /\ arg.itc_level = Frac(1, 5) /\ ret = Frac(493, 600)

(***************************************************************************)
(* SpecLevelized: energy_cost_levelized on the rows it reads (TCI, Account *)
(* 70, Account 80, 'TCI (ITC-adjusted)'), over levelization periods,       *)
(* discount rates, plant sizes and tax-credit settings.                    *)
(***************************************************************************)
MaxLevelization == 3

\* The table handed over: TCI, Account 70 and Account 80 with their two
\* cost cells, 'TCI (ITC-adjusted)' when calculate_TCI appended it.
LevelizedTables(itc) ==
    {<<Row(Named("TCI"), NoLevel, "", tci, FMul(tci, Frac(1, 2))),
       Row(Acct(7000), 0, "", a70, a70), Row(Acct(8000), 0, "", a80, FMul(a80, Frac(1, 2)))>>
     \o (IF itc THEN <<Row(Named("TCI (ITC-adjusted)"), NoLevel, "",
                           FMul(tci, Frac(3, 4)), FMul(tci, Frac(3, 8)))>> ELSE <<>>) :
        tci \in {Zero, Flt(100)}, a70 \in {Zero, Flt(30)}, a80 \in {Zero, Flt(20)}}

\* 'PTC credit value' with or without its period, the tax rate and the two
\* bonuses, each present or not.
PtcParams ==
    {("PTC credit value" :> Flt(3)) @@ period @@ tax @@ bonus :
        period \in {NoParams} \cup {"PTC credit period" :> Flt(P) : P \in 0..(MaxLevelization + 1)},
        tax \in {NoParams, "Tax Rate" :> Frac(1, 2), "Tax Rate" :> One},
        bonus \in {NoParams, "domestic_content_bonus" :> Frac(1, 10),
                   ("domestic_content_bonus" :> Frac(1, 10))
                       @@ ("energy_community_bonus" :> Frac(1, 10))}}

LevelizedCredits ==
    {NoParams, "ITC credit level" :> Frac(3, 10),
     ("ITC credit level" :> Frac(3, 10)) @@ ("PTC credit value" :> Flt(3))} \cup PtcParams

\* The parameters energy_cost_levelized reads; Annual Electricity Production
\* is what reactor_operation derived from the power and the capacity factor.
LevelizedBase(years, rate, power) ==
    ("Levelization Period" :> Flt(years)) @@ ("Interest Rate" :> rate)
    @@ ("Power MWe" :> Flt(power)) @@ ("Capacity Factor" :> One)
    @@ ("Annual Electricity Production" :> Flt(8760 * power))

InitLevelized ==
    /\ \/ \E years \in 0..MaxLevelization, rate \in {Zero, Frac(1, 4), One},
             power \in {0, 2}, credit \in LevelizedCredits :
             /\ params = credit @@ LevelizedBase(years, rate, power)
             /\ df \in LevelizedTables("ITC credit level" \in DOMAIN credit)
       \/ /\ params = LevelizedBase(2, Frac(7, 100), 1)
          /\ df \in LevelizedTables(FALSE)
       \/ \E years \in 0..MaxLevelization :
             /\ params = LevelizedBase(years, One, 2)
             /\ \E t \in LevelizedTables(FALSE) : df = SubSeq(t, 1, 2)
    /\ pc = "call" /\ before = <<>>
    /\ arg = Unused /\ ret = Unused /\ catalog = Unused
    /\ option = "" /\ sample = 0 /\ COA_list = Unused /\ escalated_cost = Unused

\* Final_COA = energy_cost_levelized(params, updated_accounts_70_80)
LevelizedCall ==
    /\ pc = "call"
    /\ before' = df
    /\ IF LevelizedRaises(df, params)
       THEN pc' = "raised" /\ UNCHANGED <<df, params>>
       ELSE /\ pc' = "returned"
            /\ params' = LevelizedParams(params)
            /\ df' = energy_cost_levelized(params, df)
    /\ UNCHANGED <<catalog, option, sample, COA_list, escalated_cost, arg, ret>>

NextLevelized == LevelizedCall

SpecLevelized == InitLevelized /\ [][NextLevelized]_vars

\* amount / (1 + rate) + ... + amount / (1 + rate)^years
RECURSIVE PresentValue(_, _, _)
PresentValue(amount, rate, years) ==
    IF years = 0 THEN Zero
    ELSE FAdd(PresentValue(amount, rate, years - 1),
              FDiv(amount, FPow(FAdd(One, rate), years)))

\* Power MWe x Capacity Factor x 8760, the MWh of a year.
Production == FMul(FMul(params["Power MWe"], params["Capacity Factor"]), Flt(8760))

\* C13: LCOE = (TCI + sum over i = 1..L of (Account 70 + Account 80) /
\* (1 + r)^i) / (sum over i = 1..L of Power MWe x Capacity Factor x 8760 /
\* (1 + r)^i), in both columns, year L included and year 0 carrying the
\* TCI alone; with r = 0.07, L = 2, 1 MWe, capacity factor 1, TCI = 100 and
\* no annual cost it is 100 / (8760/1.07 + 8760/1.07^2) = 11449/1813320.
C13_LcoeIsDiscountedCostOverProduction ==
    pc = "returned" =>
        LET L == params["Levelization Period"][1]
            r == params["Interest Rate"]
        IN  /\ \A col \in {"F", "N"} :
                  CellOf(Named("LCOE"), col) =
                      FDiv(FAdd(FirstValue(before, Named("TCI"), col),
                                PresentValue(FAdd(FirstValue(before, Acct(7000), col),
                                                  FirstValue(before, Acct(8000), col)), r, L)),
                           PresentValue(Production, r, L))
            /\ (r = Frac(7, 100) /\ L = 2 /\ params["Power MWe"] = One
                    /\ FirstValue(before, Named("TCI"), "F") = Flt(100)
                    /\ FirstValue(before, Acct(7000), "F") = Zero
                    /\ FirstValue(before, Acct(8000), "F") = Zero)
                  => CellOf(Named("LCOE"), "F") = Frac(11449, 1813320)

\* The worked example has returned.
C13_Witness ==
    /\ pc = "returned"
    /\ params["Interest Rate"] = Frac(7, 100) /\ params["Levelization Period"] = Flt(2)
    /\ FirstValue(before, Named("TCI"), "F") = Flt(100)
    /\ FirstValue(before, Acct(7000), "F") = Zero /\ FirstValue(before, Acct(8000), "F") = Zero
    /\ CellOf(Named("LCOE"), "F") = Frac(11449, 1813320)

\* 1 + domestic_content_bonus + energy_community_bonus when both are given,
\* 1 otherwise.
BonusMultiplier ==
    IF {"domestic_content_bonus", "energy_community_bonus"} \subseteq DOMAIN params
    THEN FAdd(One, FAdd(params["domestic_content_bonus"], params["energy_community_bonus"]))
    ELSE One

\* C14: with a PTC configured, 'LCOE with PTC' = LCOE - (sum over
\* i = 1..min(P, L) of credit / (1 + r)^i) / (sum over i = 1..L of
\* production / (1 + r)^i), with credit = production x PTC value x bonus
\* multiplier / (1 - Tax Rate): the credit accrues in years 1..P and in no
\* other year, and the LCOE row keeps its baseline value.
C14_LcoeWithPtc ==
    (pc = "returned" /\ "PTC credit value" \in DOMAIN params) =>
        LET L == params["Levelization Period"][1]
            P == params["PTC credit period"][1]
            r == params["Interest Rate"]
            credit == FDiv(FMul(Production, FMul(params["PTC credit value"], BonusMultiplier)),
                           FSub(One, params["Tax Rate"]))
        IN  \A col \in {"F", "N"} :
                /\ CellOf(Named("LCOE with PTC"), col) =
                      FSub(CellOf(Named("LCOE"), col),
                           FDiv(PresentValue(credit, r, IF P < L THEN P ELSE L),
                                PresentValue(Production, r, L)))
                /\ CellOf(Named("LCOE"), col) =
                      FDiv(FAdd(FirstValue(before, Named("TCI"), col),
                                PresentValue(FAdd(FirstValue(before, Acct(7000), col),
                                                  FirstValue(before, Acct(8000), col)), r, L)),
                           PresentValue(Production, r, L))

\* A credit of one year in a plant life of three has been levelized.
C14_Witness ==
    /\ pc = "returned" /\ "PTC credit value" \in DOMAIN params
    /\ params["PTC credit period"] = One /\ params["Levelization Period"] = Flt(3)
    /\ params["Interest Rate"] = Frac(1, 4)
    /\ FGt(CellOf(Named("LCOE"), "F"), CellOf(Named("LCOE with PTC"), "F"))
    /\ FirstValue(before, Named("TCI"), "F") = Flt(100)

\* The rows energy_cost_levelized appended that are none of its annualized
\* cost and LCOE rows.
ComponentRows ==
    {k \in (Len(before) + 1)..Len(df) :
        df[k].Account \notin {Named("AC"), Named("AC per MWh"), Named("LCOE"),
                              Named("LCOE with PTC"), Named("LCOE (ITC-adjusted)")}}

\* C15: next to LCOE, energy_cost_levelized leaves a capital, an O&M
\* (Account 70) and a fuel (Account 80) component, each the discounted sum
\* of its cash flow over the discounted production, and the three add up to
\* the LCOE.
C15_LcoeComponents ==
    pc = "returned" =>
        LET L == params["Levelization Period"][1]
            r == params["Interest Rate"]
            Share(amount) == FDiv(amount, PresentValue(Production, r, L))
        IN  \A col \in {"F", "N"} :
                \E cap \in ComponentRows :
                \E oandm \in ComponentRows \ {cap} :
                    \E fuel \in ComponentRows \ {cap, oandm} :
                        /\ Cell(df[cap], col) = Share(FirstValue(before, Named("TCI"), col))
                        /\ Cell(df[oandm], col) =
                              Share(PresentValue(FirstValue(before, Acct(7000), col), r, L))
                        /\ Cell(df[fuel], col) =
                              Share(PresentValue(FirstValue(before, Acct(8000), col), r, L))
                        /\ FAdd(FAdd(Cell(df[cap], col), Cell(df[oandm], col)),
                                Cell(df[fuel], col)) = CellOf(Named("LCOE"), col)

\* A call without tax credit has returned: the table has grown by the AC,
\* AC per MWh and LCOE rows and by nothing else.
C15_Witness ==
    /\ pc = "returned" /\ Len(df) = Len(before) + 3
    /\ ComponentRows = {}
    /\ FirstValue(before, Acct(7000), "F") = Flt(30) /\ FirstValue(before, Acct(8000), "F") = Flt(20)
    /\ IsFinite(CellOf(Named("LCOE"), "F"))

(***************************************************************************)
(* SpecInflation: calculate_inflation_multiplier on Dollar Years and       *)
(* escalation years inside and outside the 'Inflation Adjustment' sheet,   *)
(* for the index types 'NA', 'CPI' and one the sheet has no column for.    *)
(***************************************************************************)
MaxYearSpan == 6
InflationYears == {2018 + k : k \in 0..MaxYearSpan}

InitInflation ==
    /\ \E base \in {NaN} \cup {Flt(y) : y \in InflationYears}, year \in InflationYears,
          type \in {"NA", "CPI", "PPI"} :
          arg = [base_dollar_year |-> base, cost_type |-> type, escalation_year |-> Flt(year)]
    /\ catalog = [inflation |-> InflationSheet]
    /\ ret = Unused
    /\ pc = "call"
    /\ params = Unused /\ df = Unused /\ before = Unused
    /\ option = "" /\ sample = 0 /\ COA_list = Unused /\ escalated_cost = Unused

\* multiplier = calculate_inflation_multiplier(file_name, row['Dollar Year'],
\*                                             row['Type'], escalation_year)
InflationCall ==
    /\ pc = "call"
    /\ ret' = calculate_inflation_multiplier(catalog.inflation, arg.base_dollar_year,
                                             arg.cost_type, arg.escalation_year)
    /\ pc' = "returned"
    /\ UNCHANGED <<params, catalog, df, before, option, sample, COA_list, escalated_cost, arg>>

NextInflation == InflationCall

SpecInflation == InitInflation /\ [][NextInflation]_vars

\* A Dollar Year or an escalation year that the sheet does not list.
YearNotInSheet ==
    /\ NotNa(arg.base_dollar_year)
    /\ \/ arg.base_dollar_year[1] \notin DOMAIN catalog.inflation
       \/ arg.escalation_year[1] \notin DOMAIN catalog.inflation

\* C16: when the Dollar Year of the row or the escalation year is absent
\* from the inflation table, calculate_inflation_multiplier raises nothing,
\* whatever the index Type is, 'NA' or not.
C16_MissingYearDoesNotRaise ==
    (pc = "returned" /\ YearNotInSheet) => ~ret.raised

\* A 'CPI' row of Dollar Year 2019, a year the sheet does not list: the
\* call has raised.
C16_Witness ==
    /\ pc = "returned" /\ arg.cost_type = "CPI"
    /\ arg.base_dollar_year = Flt(2019) /\ arg.escalation_year = Flt(2023)
    /\ 2019 \notin DOMAIN catalog.inflation /\ 2023 \in DOMAIN catalog.inflation
    /\ ret.raised

(***************************************************************************)
(* SpecEnrichment: scale_cost on a table that holds account 253, over      *)
(* enrichments in hundredths, with and without a scaling variable, whose   *)
(* value is 0 or not.                                                      *)
(***************************************************************************)
MaxEnrichmentPercent == 30

\* Account 253 as the second row, after a row that sets or does not set the
\* loop's locals.
EnrichmentRow(unit, sv, exponent, eq) ==
    CatRow(1, Acct(25300), 2, "No Learning", NaN, unit, sv, NaN, exponent, eq)

InitEnrichment ==
    /\ \E first \in FirstScaleRows, unit \in {NaN, Flt(10)}, sv \in {EmptyCell, "Uranium Mass"},
          exponent \in {NaN, One}, eq \in {"standard", "nonstandard"} :
          escalated_cost = <<AdjustRow(first, One),
                             AdjustRow(EnrichmentRow(unit, sv, exponent, eq), One)>>
    /\ \E k \in 0..MaxEnrichmentPercent, mass \in {Zero, Flt(2)} :
          params = ("Escalation Year" :> Flt(2023)) @@ ("Number of Samples" :> One)
                   @@ ("Power MWe" :> Flt(2)) @@ ("Enrichment" :> Frac(k, 100))
                   @@ ("Uranium Mass" :> mass)
    /\ pc = "cleaned"
    /\ df = Unused /\ before = Unused /\ catalog = Unused /\ COA_list = Unused
    /\ option = "" /\ sample = 0 /\ arg = Unused /\ ret = Unused

SpecEnrichment == InitEnrichment /\ [][NextScale]_vars

\* The table holds account 253 as a costed row with the nonstandard
\* equation, and the enrichment is 0.2 or more.
EnrichmentTooHigh(i) ==
    /\ escalated_cost[i].Account = Acct(25300)
    /\ escalated_cost[i].StdEq = "nonstandard"
    /\ Evaluated(escalated_cost[i])
    /\ FGe(params["Enrichment"], Frac(1, 5))

\* C17 as stated: whenever the catalog holds account 253 as a costed
\* nonstandard row and Enrichment >= 0.2, the run aborts and no cost is
\* produced for the account.
C17_AsStated ==
    pc # "cleaned" =>
        \A i \in 1..Len(escalated_cost) : EnrichmentTooHigh(i) => pc = "raised"

\* C17 (amended): with account 253 a costed nonstandard row and
\* Enrichment >= 0.2 (0.2 included), scale_cost aborts unless the row
\* declares a scaling variable whose parameter value is 0; in that case the
\* zero branch runs first, account 253 gets a cost of 0 and nothing is
\* raised.
C17_AbortsUnlessScalingVariableIsZero ==
    pc # "cleaned" =>
        \A i \in 1..Len(escalated_cost) :
            EnrichmentTooHigh(i) =>
                IF ~IsNa(escalated_cost[i].SV) /\ params[escalated_cost[i].SV] = Zero
                THEN pc = "scaled" /\ df[i].F = Zero
                ELSE pc = "raised"

\* An enrichment of exactly 0.2 with a uranium mass of 2 has aborted the
\* call.
C17_Witness ==
    /\ pc = "raised" /\ EnrichmentTooHigh(2)
    /\ params["Enrichment"] = Frac(1, 5)
    /\ escalated_cost[2].SV = "Uranium Mass" /\ params["Uranium Mass"] = Flt(2)
    /\ NotNa(escalated_cost[2].Exponent)
    /\ FGt(escalated_cost[1].Unit, Zero)

(***************************************************************************)
(* SpecEscalate: escalate_cost_database on a two-row catalog.  The second  *)
(* row takes every combination of cost cells (empty, a number, the name of *)
(* a parameter), Dollar Year, index Type and escalation year.              *)
(***************************************************************************)
EscalateShapes ==
    [Fixed : {"nan", "number", "parameter"}, Unit : {NaN, Flt(10)}, Ends : BOOLEAN,
     DollarYear : {2019, 2020, 2023}, Type : {"NA", "CPI"}]

\* A catalog row of a given shape; 'Site Cost' is the parameter a Fixed
\* Cost cell may name, and Ends tells whether the low and high cells are
\* filled.
EscalateRow(s) ==
    [CatRow(1, Acct(22112), 2, "No Learning",
            IF s.Fixed = "number" THEN Flt(100) ELSE NaN, s.Unit, EmptyCell, NaN, NaN, "standard")
        EXCEPT !.Refs = [c \in CostColumns |->
                            IF c = "Fixed" /\ s.Fixed = "parameter" THEN "Site Cost" ELSE ""],
               !.FixedLo = IF s.Ends THEN Flt(50) ELSE NaN,
               !.FixedHi = IF s.Ends THEN Flt(200) ELSE NaN,
               !.UnitLo = IF s.Ends THEN Flt(5) ELSE NaN,
               !.UnitHi = IF s.Ends THEN Flt(20) ELSE NaN,
               !.DollarYear = Flt(s.DollarYear), !.Type = s.Type]

InitEscalate ==
    /\ \E s \in EscalateShapes :
          catalog = [rows |-> <<CatalogRows[4], EscalateRow(s)>>, inflation |-> InflationSheet,
                     economics |-> NoParams, columns |-> {"Account", "Account Name"}]
    /\ \E year \in {2020, 2023}, site \in {NoParams, "Site Cost" :> Flt(7)} :
          params = ("Escalation Year" :> Flt(year)) @@ site
    /\ arg = [params |-> params]
    /\ pc = "validated"
    /\ escalated_cost = <<>> /\ df = <<>> /\ before = <<>> /\ COA_list = <<>>
    /\ option = "" /\ sample = 0 /\ ret = Unused

SpecEscalate == InitEscalate /\ [][Escalate]_vars

\* A cost cell of a catalog row, resolved: the parameter's value when the
\* cell names a parameter.
Resolved(row, c) == IF row.Refs[c] = "" THEN row[c] ELSE arg.params[row.Refs[c]]

\* index[DollarYear][Type] / index[EscalationYear][Type]
IndexRatio(row) ==
    FDiv(catalog.inflation[row.DollarYear[1]][row.Type],
         catalog.inflation[arg.params["Escalation Year"][1]][row.Type])

\* C18: for every catalog row the six adjusted cost fields are the resolved
\* field times one multiplier: for a row with a Fixed or a Unit cost,
\* index[DollarYear][Type] / index[EscalationYear][Type], which is exactly 1
\* for Type 'NA' and 1 when the Dollar Year is the escalation year; 0 for a
\* row with neither.  The un-adjusted cost fields hold the resolved values.
C18_AdjustedIsResolvedTimesMultiplier ==
    pc = "escalated" =>
        \A i \in 1..Len(catalog.rows) :
            LET row == catalog.rows[i]
                out == escalated_cost[i]
                costed == NotNa(Resolved(row, "Fixed")) \/ NotNa(Resolved(row, "Unit"))
                multiplier == IF ~costed THEN Zero
                              ELSE IF row.Type = "NA" THEN One
                              ELSE IndexRatio(row)
            IN  /\ out.AdjFixed = FMul(Resolved(row, "Fixed"), multiplier)
                /\ out.AdjFixedLo = FMul(Resolved(row, "FixedLo"), multiplier)
                /\ out.AdjFixedHi = FMul(Resolved(row, "FixedHi"), multiplier)
                /\ out.AdjUnit = FMul(Resolved(row, "Unit"), multiplier)
                /\ out.AdjUnitLo = FMul(Resolved(row, "UnitLo"), multiplier)
                /\ out.AdjUnitHi = FMul(Resolved(row, "UnitHi"), multiplier)
                /\ \A c \in CostColumns : out[c] = Resolved(row, c)
                /\ (costed /\ row.DollarYear = arg.params["Escalation Year"]) => multiplier = One

\* A 'CPI' row of Dollar Year 2020 whose Fixed Cost names a parameter of
\* value 7, escalated to 2023 where the index has halved: 14, and its ends
\* doubled as well.
C18_Witness ==
    /\ pc = "escalated"
    /\ catalog.rows[2].Refs["Fixed"] = "Site Cost" /\ catalog.rows[2].Type = "CPI"
    /\ catalog.rows[2].DollarYear = Flt(2020) /\ arg.params["Escalation Year"] = Flt(2023)
    /\ escalated_cost[2].Fixed = Flt(7) /\ escalated_cost[2].AdjFixed = Flt(14)
    /\ escalated_cost[2].AdjFixedLo = Flt(100) /\ escalated_cost[2].AdjUnitHi = Flt(40)

\* The calls of bottom_up_cost_estimate in the order of its text: twelve
\* of them are the body of the sampling loop, the aggregation follows it.
PipelineOrder ==
    <<"start", "validated", "escalated", "cleaned", "operated",
      "scaled", "redundant", "learned", "base", "indirect", "decommissioned", "other",
      "capital", "finance", "tci", "annual", "levelized", "returned">>
Position(p) == CHOOSE k \in 1..Len(PipelineOrder) : PipelineOrder[k] = p
NumberOfSamples == arg.params["Number of Samples"][1]

C20_SamplesDoNotShareATable ==
    [][/\ pc \notin {"start", "validated", "escalated"} => escalated_cost' = escalated_cost
       /\ (pc' = "scaled" /\ pc # "scaled") =>
             /\ Len(df') = Len(escalated_cost)
             /\ \A i \in 1..Len(df') :
                   /\ df'[i].Account = escalated_cost[i].Account
                   /\ df'[i].N = NaN
                   /\ df'[i].Children = <<>>
                   /\ ~Evaluated(escalated_cost[i]) => df'[i].F = NaN
             /\ \E outcome \in scale_cost(escalated_cost, params) :
                   ~outcome.raised /\ df' = outcome.value]_vars

\* The second sample has been scaled: the table of the first sample, with
\* its rolled-up parents, NOAK costs, children lists and summary rows, is
\* behind it and none of that is in the new table.
C20_Witness ==
    /\ pc = "scaled" /\ sample = 2
    /\ Len(before) > Len(df)
    /\ ~Missing(before, {Named("TCI"), Named("LCOE")})
    /\ \E i \in 1..Len(df) :
          /\ before[i].Children # <<>> /\ NotNa(before[i].F) /\ NotNa(before[i].N)
          /\ df[i].Children = <<>> /\ df[i].F = NaN /\ df[i].N = NaN

\* The rows of the cleaned catalog that name a distribution for a cost or
\* for the exponent.
NamesDistribution(row) ==
    \/ row.FixedDist \in {"Lognormal", "Uniform"}
    \/ row.UnitDist \in {"Lognormal", "Uniform"}
    \/ row.ExpDist = "Truncated Normal"

\* C21: with Number of Samples = 1 nothing is drawn: scale_cost has one
\* outcome, computed from the nominal adjusted costs also on the rows that
\* name a distribution, and so has the indirect-cost step; in the table
\* returned every mean is the cell of the one sample and every standard
\* deviation is 0.  A run is therefore a function of its inputs.
C21_OneSampleIsDeterministic ==
    NumberOfSamples = 1 =>
        /\ pc \in {"operated", "levelized"} =>
              Cardinality(scale_cost(escalated_cost, params)) = 1
        /\ pc = "scaled" =>
              \A i \in 1..Len(df) :
                  LET row == escalated_cost[i]
                  IN  (Evaluated(row) /\ IsNa(row.SV) /\ row.StdEq = "standard") =>
                          df[i].F = (IF IsNaN(row.Fixed) THEN Zero ELSE row.AdjFixed)
        /\ pc = "base" => Cardinality(calculate_accounts_31_32_75_82_cost(df, params)) = 1
        /\ pc = "returned" =>
              /\ Len(COA_list) = 1 /\ Len(ret) = Len(COA_list[1])
              /\ \A k \in 1..Len(ret) :
                    /\ ret[k].Account = COA_list[1][k].Account
                    /\ ret[k].F = COA_list[1][k].F /\ ret[k].N = COA_list[1][k].N
                    /\ ret[k].Fstd = StdOf(Zero, One) /\ ret[k].Nstd = StdOf(Zero, One)

\* A run of one sample has returned its table; account 21 names a Uniform
\* distribution between 30 and 90 and its mean is the nominal 60, with a
\* standard deviation of 0; the LCOE row is there too.
C21_Witness ==
    /\ pc = "returned" /\ NumberOfSamples = 1
    /\ \E i \in 1..Len(escalated_cost) :
          /\ escalated_cost[i].Account = Acct(2100) /\ NamesDistribution(escalated_cost[i])
          /\ escalated_cost[i].AdjFixedLo = Flt(30) /\ escalated_cost[i].AdjFixedHi = Flt(90)
    /\ FirstValue(ret, Acct(2100), "F") = Flt(60)
    /\ \E k \in 1..Len(ret) :
          /\ ret[k].Account = Named("LCOE") /\ NotNa(ret[k].F)
          /\ ret[k].Fstd = StdOf(Zero, One) /\ ret[k].Nstd = StdOf(Zero, One)

\* The account numbers follow the prefix convention of the groups: the
\* immediate children of a row of the group are rows of the group.
GroupClosed(t, opt) ==
    \A i \in 1..Len(t) :
        (InGroup(t[i], opt) /\ t[i].Level \in 0..TopLevel) =>
            \A j \in ChildRows(t, i) : InGroup(t[j], opt)

MaxCycles == 2

\* The table after the base rollup: Account 20 with its children, the
\* itemized accounts 221.12 and 222.1 among them, and the accounts the
\* function writes to, still empty.
IndirectTable ==
    LET costed(a, l, f) == Row(Acct(a), l, "No Learning", Flt(2 * f), Flt(f))
        empty(a, l) == Row(Acct(a), l, "", NaN, NaN)
    IN  <<costed(2000, 0, 20), costed(2100, 1, 4), costed(2200, 1, 9),
          costed(22112, 2, 6), costed(22210, 2, 3), costed(2300, 1, 2), costed(2500, 1, 5),
          empty(3000, 0), empty(3100, 1), empty(3200, 1),
          empty(7000, 0), empty(7500, 1),
          empty(75100, 2), empty(75200, 2), empty(75300, 2), empty(75400, 2),
          empty(75500, 2), empty(75600, 2), empty(75900, 2),
          empty(8000, 0), empty(8200, 1)>>

\* The design parameters the function reads; the refueling period is two
\* years.
IndirectBase(rate) ==
    ("indirect to direct field-related cost" :> Frac(1, 2))
    @@ ("Fuel Lifetime" :> Flt(700)) @@ ("Refueling Period" :> Flt(20))
    @@ ("Startup Duration after Refueling" :> Flt(10))
    @@ ("Interest Rate" :> rate) @@ ("Maintenance to Direct Cost Ratio" :> Frac(1, 10))

\* What a design may add: the coolant inventory to replace, the replacement
\* periods of the large components (all four, or the vessel's alone), the
\* period of the integrated heat exchanger.
ReplacementParams ==
    {NoParams, "A75: Vessel Replacement Period (cycles)" :> One}
    \cup {("A75: Vessel Replacement Period (cycles)" :> Flt(vessel))
          @@ ("A75: Core Barrel Replacement Period (cycles)" :> Flt(barrel))
          @@ ("A75: Reflector Replacement Period (cycles)" :> One)
          @@ ("A75: Drum Replacement Period (cycles)" :> Flt(drum))
          @@ hx :
             vessel \in 0..MaxCycles, barrel \in 0..1, drum \in 0..1,
             hx \in {NoParams, "A75: Integrated HX Replacement Period (cycles)" :> One}}

InitIndirect ==
    /\ \E rate \in {One, Frac(1, 2)}, replacement \in ReplacementParams,
          coolant \in {NoParams, "Replacement Coolant Inventory" :> Flt(70)} :
          params = replacement @@ coolant @@ IndirectBase(rate)
    /\ df = IndirectTable
    /\ pc = "base"
    /\ before = Unused /\ catalog = Unused /\ COA_list = Unused /\ escalated_cost = Unused
    /\ option = "base" /\ sample = 1 /\ arg = Unused /\ ret = Unused

SpecIndirect == InitIndirect /\ [][Indirect]_vars

\* The itemized CAPEX amounts of a column, in the order of accounts 751-756,
\* and the cycles between two replacements of each.
ItemizedCapex(t, col) ==
    <<ValuesSum(t, {Acct(22112)}, col), ValuesSum(t, {Acct(22113)}, col),
      ValuesSum(t, {Acct(22133)}, col), ValuesSum(t, {Acct(22131)}, col),
      ValuesSum(t, {Acct(22120)}, col),
      ValuesSum(t, {Acct(22210), Acct(22220), Acct(22230), Acct(22261)}, col)>>

ReplacementCycles(p) ==
    LET cycles(key) == IF key \in DOMAIN p THEN p[key][1] ELSE 0
    IN  <<cycles("A75: Vessel Replacement Period (cycles)"),
          cycles("A75: Core Barrel Replacement Period (cycles)"), 1,
          cycles("A75: Reflector Replacement Period (cycles)"),
          cycles("A75: Drum Replacement Period (cycles)"),
          cycles("A75: Integrated HX Replacement Period (cycles)")>>

\* The capital recovery factor of a component: 0 for one never replaced.
RecoveryFactor(rate, period) == IF period = 0 THEN Zero ELSE AnnuityFactor(rate, period)

\* The function has written accounts 751-756 and 759 of a column.
Itemized(col) ==
    LET capex == ItemizedCapex(before, col)
        total == SumOf(capex)
        rest == FSub(FirstValue(before, Acct(2000), col), total)
        refueling_years ==
            FDiv(FAdd(FAdd(params["Fuel Lifetime"], params["Refueling Period"]),
                      params["Startup Duration after Refueling"]), Flt(365))[1]
    IN  /\ \A k \in 1..6 :
              CellOf(Acct(75000 + 100 * k), col) =
                  FMul(capex[k], RecoveryFactor(params["Interest Rate"],
                                                refueling_years * ReplacementCycles(params)[k]))
        /\ CellOf(Acct(75900), col) = FMul(rest, params["Maintenance to Direct Cost Ratio"])
        /\ FAdd(total, rest) = FirstValue(before, Acct(2000), col)
        /\ CellOf(Acct(7500), col) = FirstValue(before, Acct(7500), col)

\* The function has written Account 75 of a column and none of 751-759.
Flat(col) ==
    /\ CellOf(Acct(7500), col) = FMul(FirstValue(before, Acct(2000), col),
                                      params["Maintenance to Direct Cost Ratio"])
    /\ \A a \in {75100, 75200, 75300, 75400, 75500, 75600, 75900} :
          CellOf(Acct(a), col) = FirstValue(before, Acct(a), col)

\* C23: when a design-parameter name contains 'replacement', accounts
\* 751-756 are the itemized CAPEX amounts times the capital recovery factor
\* over cycles x refueling period, account 759 is (Account 20 - the six
\* itemized amounts) x maintenance ratio, and itemized plus non-itemized
\* CAPEX is Account 20; otherwise Account 75 is Account 20 x maintenance
\* ratio and accounts 751-759 are not written.
C23_ItemizedOrFlatMaintenance ==
    pc \in {"indirect", "raised"} =>
        /\ pc = "indirect"
        /\ \A col \in {"F", "N"} : IF HasReplacement(params) THEN Itemized(col) ELSE Flat(col)

\* The design names the coolant inventory to replace and none of the
\* replacement periods: the call raised and wrote no account.
C23_Witness ==
    /\ pc = "raised"
    /\ "Replacement Coolant Inventory" \in DOMAIN params
    /\ DOMAIN params \cap ReplacementPeriods = {}
    /\ df = IndirectTable

\* With the four replacement periods configured the statement holds: the
\* vessel replaced every second cycle (four years), the heat exchanger not
\* itemized.
C23_ItemizedWhenPeriodsConfigured ==
    (pc \in {"indirect", "raised"} /\ (HasReplacement(params) => ReplacementPeriods \subseteq DOMAIN params)) =>
        /\ pc = "indirect"
        /\ \A col \in {"F", "N"} : IF HasReplacement(params) THEN Itemized(col) ELSE Flat(col)

\* The design parameters of a run once every write of the first sample is
\* made, as a function of what the run was handed: the parameters, the
\* Economics Parameters sheet and what reactor_operation calculates.
SettledParams ==
    LevelizedParams(DecommissioningParams(LearningParams(
        reactor_operation(MergeParams(arg.params, catalog.economics)))))

\* C24: inside the sampling loop the design parameters are written only by
\* FOAK_to_NOAK, calculate_decommissioning_cost and energy_cost_levelized,
\* each time with a value that is a function of the parameters alone; once
\* the first sample is finished no step changes them, and they are then the
\* same whatever the samples drew.
C24_SamplesLeaveParamsAlone ==
    /\ [][/\ Len(COA_list) >= 1 => params' = params
          /\ (Position(pc) >= 5 /\ params' # params) =>
                \/ pc' = "learned" /\ params' = LearningParams(params)
                \/ pc' = "decommissioned" /\ params' = DecommissioningParams(params)
                \/ pc' = "levelized" /\ params' = LevelizedParams(params)]_vars
    /\ [](Len(COA_list) >= 1 => params = SettledParams)

\* The second sample has drawn another fixed cost for account 21 than the
\* first and has passed FOAK_to_NOAK: the defaults the first sample wrote
\* (NOAK Unit Number 10, decommissioning ratio 0.15, Tax Rate 0.21) are in
\* the parameters, which the run was handed without them.
C24_Witness ==
    /\ pc = "learned" /\ sample = 2
    /\ FirstValue(df, Acct(2100), "F") # FirstValue(COA_list[1], Acct(2100), "F")
    /\ DOMAIN arg.params \cap {"NOAK Unit Number", "A78: CAPEX to Decommissioning Cost Ratio",
                               "Tax Rate"} = {}
    /\ params["NOAK Unit Number"] = Flt(10)
    /\ params["A78: CAPEX to Decommissioning Cost Ratio"] = Frac(3, 20)
    /\ params["Tax Rate"] = Frac(21, 100)
    /\ params = SettledParams

\* The row carries none of the nine multiplier tags.
Untagged(row) == row.Tag \notin LearningTypes \cup {"Onsite Learning"}

\* C25: a row with no recognized multiplier tag leaves FOAK_to_NOAK with an
\* empty NOAK cost, whatever its FOAK cost; the rollup of a group then gives
\* every in-group row at Level 0-4 whose NOAK cost is still empty the sum of
\* its children's NOAK costs when it has a children list, and 0 when it has
\* none, which is the case of every row with a FOAK cost of its own.
C25_UntaggedNoakFilledByRollup ==
    /\ pc = "learned" =>
          \A i \in 1..Len(df) : Untagged(df[i]) => IsNaN(df[i].N)
    /\ pc \in {"base", "other", "finance", "annual"} =>
          \A i \in 1..Len(df) :
              (InGroup(before[i], option) /\ before[i].Level \in 0..TopLevel
               /\ IsNaN(before[i].N)) =>
                  /\ df[i].Children # <<>> => df[i].N = SumCells(df, ChildRows(before, i), "N")
                  /\ df[i].Children = <<>> => df[i].N = Zero
                  /\ NotNa(before[i].F) => (df[i].Children = <<>> /\ df[i].F = before[i].F)

\* After the base rollup: account 226, costed at 8 and without a tag, has a
\* NOAK cost of 0, and its parent, Account 22, holds in the NOAK column the
\* sum of its children, in which account 226 counts for nothing.
C25_Witness ==
    /\ pc = "base"
    /\ \E i \in 1..Len(df) :
          /\ df[i].Account = Acct(22600) /\ Untagged(df[i])
          /\ before[i].F = Flt(8) /\ IsNaN(before[i].N)
          /\ df[i].F = Flt(8) /\ df[i].N = Zero
    /\ \E i \in 1..Len(df) :
          /\ df[i].Account = Acct(2200) /\ Untagged(df[i]) /\ IsNaN(before[i].N)
          /\ df[i].Children # <<>>
          /\ df[i].N = SumCells(df, ChildRows(before, i), "N")
          /\ FGt(df[i].F, FAdd(df[i].N, Flt(8)))

\* A bonus counts for 0 when it is not configured.
BonusOrZero(key) == IF key \in DOMAIN params THEN params[key] ELSE Zero

\* 'LCOE with PTC' of a column for a given bonus multiplier.
LcoeWithPtcFor(multiplier, col) ==
    LET L == params["Levelization Period"][1]
        P == params["PTC credit period"][1]
        r == params["Interest Rate"]
        credit == FDiv(FMul(Production, FMul(params["PTC credit value"], multiplier)),
                       FSub(One, params["Tax Rate"]))
    IN  FSub(CellOf(Named("LCOE"), col),
             FDiv(PresentValue(credit, r, IF P < L THEN P ELSE L),
                  PresentValue(Production, r, L)))

\* C26: the PTC bonus multiplier is 1 + domestic_content_bonus +
\* energy_community_bonus with 0 for a bonus that is not configured, so that
\* one bonus configured alone raises the yearly credit.
C26_EachBonusCountsAlone ==
    (pc = "returned" /\ "PTC credit value" \in DOMAIN params) =>
        \A col \in {"F", "N"} :
            CellOf(Named("LCOE with PTC"), col) =
                LcoeWithPtcFor(FAdd(One, FAdd(BonusOrZero("domestic_content_bonus"),
                                              BonusOrZero("energy_community_bonus"))), col)

\* One bonus of 10 % configured without the other: 'LCOE with PTC' is what
\* it is with no bonus at all, and not what the bonus would make it.
C26_Witness ==
    /\ pc = "returned" /\ "PTC credit value" \in DOMAIN params
    /\ \E one \in {"domestic_content_bonus", "energy_community_bonus"} :
          /\ DOMAIN params \cap {"domestic_content_bonus", "energy_community_bonus"} = {one}
          /\ params[one] = Frac(1, 10)
    /\ params["PTC credit period"][1] >= 1
    /\ CellOf(Named("LCOE with PTC"), "F") = LcoeWithPtcFor(One, "F")
    /\ CellOf(Named("LCOE with PTC"), "F") # LcoeWithPtcFor(Frac(11, 10), "F")

\* The FOAK costs scale_cost can give a row when the row is the only one of
\* the table.
CostsAlone(row) ==
    {outcome.value[1].F : outcome \in {o \in scale_cost(<<row>>, params) : ~o.raised}}

\* C27: the FOAK cost scale_cost assigns to a row is one it can assign to
\* that row standing alone, with the same parameters: nothing of it comes
\* from the rows before, also when the row's Exponent is empty or its
\* 'Standard Cost Equation?' is neither 'standard' nor 'nonstandard'.
C27_RowCostIsItsOwn ==
    pc = "scaled" =>
        \A i \in 1..Len(df) :
            Evaluated(escalated_cost[i]) => df[i].F \in CostsAlone(escalated_cost[i])

\* The second row is costed and has no equation kind: alone it cannot be
\* scaled at all, and after a first row scaled with the standard equation
\* it holds that row's cost.
C27_Witness ==
    /\ pc = "scaled" /\ Len(df) = 2
    /\ Evaluated(escalated_cost[1]) /\ Evaluated(escalated_cost[2])
    /\ escalated_cost[2].StdEq \notin {"standard", "nonstandard"}
    /\ CostsAlone(escalated_cost[2]) = {}
    /\ NotNa(df[1].F) /\ df[2].F = df[1].F

(***************************************************************************)
(* SpecClean: escalate_cost_database followed by remove_irrelevant_account *)
(* on a two-row catalog whose second row may be conditional on the reactor *)
(* type.                                                                   *)
(***************************************************************************)
\* The second row with an optional pair, or with none.
ConditionalRow(s, pair) == [EscalateRow(s) EXCEPT !.OptVar = pair[1], !.OptVal = pair[2]]

InitClean ==
    /\ \E s \in EscalateShapes,
          pair \in {<<EmptyCell, EmptyCell>>, <<"Reactor", "LTMR">>, <<"Reactor", "GCMR">>} :
          catalog = [rows |-> <<CatalogRows[4], ConditionalRow(s, pair)>>,
                     inflation |-> InflationSheet,
                     economics |-> NoParams, columns |-> {"Account", "Account Name"}]
    /\ \E year \in {2020, 2023}, site \in {NoParams, "Site Cost" :> Flt(7)} :
          params = ("Escalation Year" :> Flt(year)) @@ ("Reactor" :> "GCMR") @@ site
    /\ arg = [params |-> params]
    /\ pc = "validated"
    /\ escalated_cost = <<>> /\ df = <<>> /\ before = <<>> /\ COA_list = <<>>
    /\ option = "" /\ sample = 0 /\ ret = Unused

SpecClean == InitClean /\ [][Escalate \/ Remove]_vars

\* The two calls in the order of bottom_up_cost_estimate: the cleaned table,
\* or a raise of either call.
Cleaned(file, p) ==
    LET out == escalate_cost_database(file, p["Escalation Year"], p)
    IN  IF out.raised THEN Raised
        ELSE IF RemoveRaises(out.value.df, out.value.params, file.columns) THEN Raised
        ELSE Returned(remove_irrelevant_account(out.value.df, out.value.params, file.columns))

\* The catalog rows remove_irrelevant_account drops for the design.
Dropped(file, p) ==
    {i \in 1..Len(file.rows) :
        RowOutcome(file.rows[i], MergeParams(p, file.economics), file.columns) = "drop"}

\* The workbook without the rows that are dropped.
RECURSIVE Without(_, _, _)
Without(rows, gone, i) ==
    IF i > Len(rows) THEN <<>>
    ELSE (IF i \in gone THEN <<>> ELSE <<rows[i]>>) \o Without(rows, gone, i + 1)

NeverListed(file, p) == [file EXCEPT !.rows = Without(file.rows, Dropped(file, p), 1)]

\* C28: once the catalog is escalated and cleaned, or the run has aborted
\* on the way, the outcome is the one of the same run on the catalog without
\* the rows that are dropped: the same abort, or the same cleaned table.
C28_DroppedRowHasNoEffect ==
    pc \in {"cleaned", "raised"} =>
        LET same == Cleaned(NeverListed(catalog, arg.params), arg.params)
        IN  IF pc = "raised" THEN same.raised
            ELSE ~same.raised /\ same.value = escalated_cost

\* The run has aborted in escalation on a catalog whose dropped row names a
\* parameter the design lacks; without that row it would not have.
C28_Witness ==
    /\ pc = "raised"
    /\ Dropped(catalog, arg.params) = {2}
    /\ catalog.rows[2].Refs["Fixed"] \notin DOMAIN arg.params \cup {""}
    /\ ~Cleaned(NeverListed(catalog, arg.params), arg.params).raised

(***************************************************************************)
(* SpecOrphan: remove_irrelevant_account on a catalog laid out as a tree   *)
(* (the first row at Level 0, a row at most one level below the row before *)
(* it), each row with or without a cost of its own and with or without a   *)
(* condition on the reactor type.                                          *)
(***************************************************************************)
TreeShapes == [Level : 0..MaxLevel, Costed : BOOLEAN,
               Pair : {<<EmptyCell, EmptyCell>>, <<"Reactor", "GCMR">>, <<"Reactor", "LTMR">>}]

TreeRow(k, s) ==
    [index |-> k - 1, Account |-> Acct(22110 + k), Level |-> s.Level, Tag |-> EmptyCell,
     F |-> IF s.Costed THEN Flt(10) ELSE NaN, N |-> NaN, Children |-> <<>>,
     OptVar |-> s.Pair[1], OptVal |-> s.Pair[2], SecVar |-> EmptyCell, SecVal |-> EmptyCell]

InitOrphan ==
    /\ \E n \in 1..MaxRows : \E shapes \in [1..n -> TreeShapes] :
          /\ shapes[1].Level = 0
          /\ \A k \in 2..n : shapes[k].Level <= shapes[k - 1].Level + 1
          /\ df = [k \in 1..n |-> TreeRow(k, shapes[k])]
    /\ params \in {[v \in {"Reactor"} |-> r] : r \in {"LTMR", "GCMR"}}
    /\ catalog = [columns |-> {"Account", "Account Name"}]
    /\ before = Unused /\ pc = "escalated"
    /\ option = "" /\ sample = 0 /\ COA_list = Unused /\ escalated_cost = Unused
    /\ arg = Unused /\ ret = Unused

SpecOrphan == InitOrphan /\ [][RemoveCall]_vars

\* The accounts whose children list, as find_children_accounts derives it
\* on table t, names the account.
ParentsIn(t, account) ==
    LET listed == find_children_accounts(t)
    IN  {listed[k].Account : k \in {m \in 1..Len(t) :
            \E c \in 1..Len(listed[m].Children) : listed[m].Children[c] = Str(account)}}

\* C29: after remove_irrelevant_account every surviving row is listed as a
\* child of the same account as in the catalog before the removal.
C29_SurvivorsKeepTheirParent ==
    pc = "removed" =>
        \A i \in 1..Len(df) : ParentsIn(df, df[i].Account) = ParentsIn(before, df[i].Account)

\* An excluded account is gone, and a sub-account of it is now listed as a
\* child of an account that was not its parent.
C29_Witness ==
    /\ pc = "removed" /\ Len(df) < Len(before)
    /\ \E i \in 1..Len(df) :
          /\ ParentsIn(before, df[i].Account) # {}
          /\ ParentsIn(df, df[i].Account) # {}
          /\ ParentsIn(df, df[i].Account) \cap ParentsIn(before, df[i].Account) = {}

\* A table with both an 'LCOE with PTC' row and an 'LCOE (ITC-adjusted)' row.
BothCreditRows(t) ==
    ~Missing(t, {Named("LCOE with PTC")}) /\ ~Missing(t, {Named("LCOE (ITC-adjusted)")})

\* The design hands in one credit and the 'Economics Parameters' sheet adds
\* the other.
SecondCreditFromSheet ==
    /\ ~validate_tax_credit_params(arg.params)
    /\ validate_tax_credit_params(MergeParams(arg.params, catalog.economics))

\* C30: no table of a sample, and no returned table, has both an 'LCOE with
\* PTC' row and an 'LCOE (ITC-adjusted)' row; a run whose second credit comes
\* from the Economics Parameters sheet levelizes no sample and returns
\* nothing, and when it aborts it does so in energy_cost_levelized.
C30_NeverBothCreditRows ==
    /\ [](/\ ~BothCreditRows(df) /\ ~BothCreditRows(ret)
          /\ \A k \in 1..Len(COA_list) : ~BothCreditRows(COA_list[k]))
    /\ [](SecondCreditFromSheet => pc \notin {"levelized", "returned"} /\ COA_list = <<>>)
    /\ [][SecondCreditFromSheet /\ pc' = "raised" => pc = "annual"]_vars

\* A run with the PTC handed in and the ITC on the sheet has passed the
\* validation, computed the ITC-adjusted investment and aborted in the
\* levelization of its first sample.
C30_Witness ==
    /\ pc = "raised" /\ SecondCreditFromSheet
    /\ "PTC credit value" \in DOMAIN arg.params /\ "ITC credit level" \in DOMAIN params
    /\ sample = 1 /\ option = "annual" /\ COA_list = <<>>
    /\ ~Missing(df, {Named("TCI (ITC-adjusted)")})

=============================================================================
